---- MODULE Spec2Model ----
(***************************************************************************)
(* A model of gomenarr, a periodic media-acquisition orchestrator.         *)
(*                                                                         *)
(* The repository holds two generations of the program:                    *)
(*   - the controllers generation (internal/controllers, internal/models,  *)
(*     scheduler): medias and NZBs carry a status, the downloader is       *)
(*     TorBox, webhooks resolve an NZB by name or hash;                    *)
(*   - the services generation (internal/core/services, orchestrator,      *)
(*     sqlite adapters): medias carry on_disk / path / download_id, NZBs   *)
(*     carry a failed flag and scores, the downloader is NZBGet.           *)
(* Both are modelled, each with its own variables, actions and             *)
(* specification.  Repository (database) calls are assumed to succeed.     *)
(***************************************************************************)
EXTENDS Integers, Sequences, FiniteSets, TLC

(***************************************************************************)
(* Bounds of the model.                                                    *)
(***************************************************************************)
MaxNZB == 6          \* NZB rows ever inserted (bolthold sequence)
MaxJobs == 6         \* jobs ever created at TorBox
MaxTime == 2         \* ticks of the clock
MaxSearches == 2     \* runs of the search job
MaxMedia == 2        \* Media rows ever inserted (bolthold sequence)
MaxCycles == 2       \* cycles of the orchestrator
MaxRows == 8         \* rows ever inserted into table nzbs
MaxDownloads == 3    \* downloads ever given to NZBGet
MaxNotify == 1       \* notifications waiting in Handlers.notifyChan
MaxTitleLen == 4     \* characters of the longer of two normalized titles
MaxReaders == 3      \* goroutines that call IsWatched side by side
MaxDepth == 6        \* calls of the legacy tracker client that have not returned
MaxHours == 48       \* hours of validity a new token is given
MaxRequests == 2     \* HTTP requests the legacy tracker client sends

(***************************************************************************)
(* Program constants.                                                      *)
(***************************************************************************)
maxRetries == 5
StuckTimeout == 1    \* Scheduler.downloadTimeoutMinutes, in ticks
numWorkers == 3      \* the workers of DownloadMedia
RefreshBefore == 24  \* ensureValidToken refreshes a token with fewer hours left

(***************************************************************************)
(* Small helpers.                                                          *)
(***************************************************************************)
Min(S) == CHOOSE x \in S : \A y \in S : x <= y

RECURSIVE SetToSeq(_)
\* the elements of a finite set of integers in ascending order
SetToSeq(S) == IF S = {} THEN <<>> ELSE <<Min(S)>> \o SetToSeq(S \ {Min(S)})

Range(s) == {s[i] : i \in 1..Len(s)}

(***************************************************************************)
(* The upstream world of the controllers generation: one movie and one     *)
(* show at the tracker, and the releases the indexer knows for them.       *)
(***************************************************************************)
MovieIMDB == "tt-movie"

ShowIMDB == "tt-show"

MediaTypeOf(imdb) == IF imdb = MovieIMDB THEN "movie" ELSE "tv"

MediaYearOf(imdb) == IF imdb = MovieIMDB THEN 2020 ELSE 2019

\* A release as the Newznab client returns it (SearchResult), with what the
\* title parsers extract from it: season / episode (0 stands for nil), the
\* season-pack flag, the quality tier (REMUX 3, WEB-DL 2, other 1), the
\* year (0: none in the title) and whether a blacklist term matches.
Release(t, i, e, p, q, sz, y, b) ==
    [title |-> t, imdb |-> i, episode |-> e, pack |-> p,
     quality |-> q, size |-> sz, year |-> y, blk |-> b]

Rel ==
    [M1 |-> Release("Movie.2020.REMUX", MovieIMDB, 0, FALSE, 3, 60, 2020, FALSE),
     M2 |-> Release("Movie.2020.WEB-DL.a", MovieIMDB, 0, FALSE, 2, 50, 2020, FALSE),
     M3 |-> Release("Movie.2020.WEB-DL.b", MovieIMDB, 0, FALSE, 2, 40, 2020, FALSE),
     M4 |-> Release("Movie.2020.HDTV.a", MovieIMDB, 0, FALSE, 1, 30, 2020, FALSE),
     M5 |-> Release("Movie.HDTV.b", MovieIMDB, 0, FALSE, 1, 20, 0, FALSE),
     M6 |-> Release("Movie.2020.HDTV.c", MovieIMDB, 0, FALSE, 1, 10, 2020, FALSE),
     MB |-> Release("Movie.2020.CAM.REMUX", MovieIMDB, 0, FALSE, 3, 70, 2020, TRUE),
     MY |-> Release("Movie.2018.REMUX", MovieIMDB, 0, FALSE, 3, 80, 2018, FALSE),
     P1 |-> Release("Show.S01.WEB-DL", ShowIMDB, 0, TRUE, 2, 90, 0, FALSE),
     E1a |-> Release("Show.S01E01.REMUX", ShowIMDB, 1, FALSE, 3, 31, 0, FALSE),
     E1b |-> Release("Show.S01E01.HDTV", ShowIMDB, 1, FALSE, 1, 11, 0, FALSE),
     E2a |-> Release("Show.S01E02.WEB-DL", ShowIMDB, 2, FALSE, 2, 21, 0, FALSE),
     E2b |-> Release("Show.S01E02.HDTV", ShowIMDB, 2, FALSE, 1, 12, 0, FALSE)]

\* The episodes of the show's only season as the tracker lists them, none
\* of them watched when the strategy asks: the next episode is the first.
SeasonEpisodes == <<1, 2>>

\* What the tracker holds: the favorites, the watchlist, and what it reports
\* as recently watched (the movie, episodes of the show's season, and, in
\* other, the numbers of the watched episodes of another season of the show).
Tracker(f, w, m, e) == [fav |-> f, wl |-> w, movie |-> m, episodes |-> e, other |-> {}]

\* The outside in one run of the model: the releases the indexer holds and
\* what the tracker holds.
Worlds ==
    { [indexer |-> {"E1a", "E1b", "E2a", "E2b"},
       tracker |-> Tracker({ShowIMDB}, {}, FALSE, {})],
      [indexer |-> {"P1", "E1a", "E1b", "E2a", "E2b"},
       tracker |-> Tracker({ShowIMDB}, {}, FALSE, {2})],
      [indexer |-> {"M1", "M2", "M3", "MB", "MY"},
       tracker |-> Tracker({MovieIMDB}, {}, TRUE, {})],
      [indexer |-> {"M1", "M2", "M3", "M4", "M5", "M6"},
       tracker |-> Tracker({MovieIMDB}, {}, FALSE, {})],
      [indexer |-> {"M1"},
       tracker |-> Tracker({}, {MovieIMDB}, FALSE, {})],
      [indexer |-> {"MB"},
       tracker |-> Tracker({}, {MovieIMDB, ShowIMDB}, FALSE, {})] }

(***************************************************************************)
(* State of the controllers generation.                                    *)
(***************************************************************************)
VARIABLES
    medias,      \* bolthold Media rows: ID -> row
    nzbs,        \* bolthold NZB rows: ID -> row
    seqM,        \* last key the Media bucket's sequence gave out
    seqN,        \* last key the NZB bucket's sequence gave out
    jobs,        \* the usenet downloads TorBox holds (ids)
    nextJob,     \* the id TorBox gives its next download
    now,         \* the clock
    indexer,     \* the releases the indexer holds
    tracker,     \* what the tracker holds
    searches     \* how many times the search job has run

(***************************************************************************)
(* State of the services generation.                                       *)
(***************************************************************************)
VARIABLES
    smedia,      \* table media: trakt_id -> row
    snzb,        \* table nzbs: id -> row
    nzbget,      \* the downloads NZBGet was given: NZBID -> download
    notifyChan,  \* Handlers.notifyChan: the notifications not yet processed
    trakt,       \* the movies and episodes the tracker lists
    watchHistory, \* the trakt ids in the tracker's watch history
    watchedCache, \* Client.watchedMovieCache and watchedEpisodeCache
    stage,       \* the task Orchestrator.runCycle runs next
    cycles,      \* how many cycles the orchestrator has completed
    enq,         \* the locals of a running DownloadMedia
    cycleEnd,    \* the tables and downloads as the last two cycles left them
    disturbed    \* how many coming cycle ends are not comparable with their predecessor

ctlVars == <<medias, nzbs, seqM, seqN, jobs, nextJob, now, indexer, tracker, searches>>

svcVars == <<trakt, smedia, snzb, nzbget, notifyChan, watchHistory, watchedCache, stage, cycles, enq, cycleEnd, disturbed>>

(***************************************************************************)
(* The last application of one of the program's functions that the model   *)
(* applies on its own (runTask's status, the scorer, the parsers).         *)
(***************************************************************************)
VARIABLES
    call,        \* [fn, in, out]: the function, its input and what it returned
    cancelled,   \* the root context of Orchestrator.Run is cancelled
    responses,   \* download id -> the HTTP status Handlers.Notify answered
    sweep        \* the stuck NZBs a running CheckStuckDownloads has read

(***************************************************************************)
(* Goroutines the program runs side by side, and the tracker token.        *)
(***************************************************************************)
VARIABLES
    runs,        \* Scheduler.runSearch, per run: the medias read and the one in hand
    readers,     \* per goroutine calling IsWatched: where it stands in the call
    cacheMu,     \* Client.watchedCacheMu: its writer and its readers
    fetches,     \* requests for the watched history since the caches were cleared
    token,       \* the token file: the hours of validity left, or no token
    stack,       \* the calls of the legacy tracker client that have not returned
    requests       \* the HTTP requests the legacy tracker client has sent

runVars == <<runs, readers, cacheMu, fetches, token, stack, requests>>

auxVars == <<call, cancelled, responses, sweep, runVars>>

NoCall == [fn |-> "none", in |-> <<>>, out |-> <<>>]

\* No CheckStuckDownloads is running.
NoSweep == [ids |-> <<>>, snapshot |-> <<>>]

\* The goroutines that run Scheduler.runSearch: the one Start launches and
\* the one cron launches for the job "search".
Runs == {"initial", "cron"}

\* No runSearch is running in this goroutine.
NoRun == [todo |-> <<>>, rows |-> <<>>, current |-> 0]

\* The goroutines that call IsWatched: the workers of SyncEpisodes.
Readers == 1..MaxReaders

\* No token file.
NoToken == [present |-> FALSE, left |-> 0]

InitRuns ==
    /\ runs = [r \in Runs |-> NoRun]
    /\ readers = [g \in Readers |-> [pc |-> "idle", mediaType |-> "movie"]]
    /\ cacheMu = [writer |-> 0, readers |-> {}]
    /\ fetches = [t \in {"movie", "episode"} |-> 0]
    /\ token = NoToken
    /\ stack = <<>>
    /\ requests = <<>>

\* The database and TorBox as one value, so that a handler is a function
\* from the state it finds to the state it leaves.
DB == [m |-> medias, n |-> nzbs, seqM |-> seqM, seqN |-> seqN,
       jobs |-> jobs, nextJob |-> nextJob]

Store(db) ==
    /\ medias' = db.m
    /\ nzbs' = db.n
    /\ seqM' = db.seqM
    /\ seqN' = db.seqN
    /\ jobs' = db.jobs
    /\ nextJob' = db.nextJob

\* The rows of a table among the keys given (those a query matches), in key
\* order, which is the order bolthold's Find returns them in.
RowsOf(table, ids) == SetToSeq(ids \cap DOMAIN table)

InitCtl ==
    /\ medias = <<>>
    /\ nzbs = <<>>
    /\ seqM = 0
    /\ seqN = 0
    /\ jobs = {}
    /\ nextJob = 1
    /\ now = 0
    /\ \E w \in Worlds : indexer = w.indexer /\ tracker = w.tracker
    /\ searches = 0

(***************************************************************************)
(* internal/models/database.go                                             *)
(***************************************************************************)
CreateMedia(db, row) ==
    [db EXCEPT !.seqM = @ + 1, !.m = (db.seqM + 1 :> row) @@ @]

UpdateMedia(db, id, row) ==
    IF id \in DOMAIN db.m THEN [db EXCEPT !.m[id] = row] ELSE db

CreateNZB(db, row) ==
    [db EXCEPT !.seqN = @ + 1,
               !.n = (db.seqN + 1 :> [row EXCEPT !.updatedAt = now]) @@ @]

UpdateNZB(db, id, row) ==
    IF id \in DOMAIN db.n
    THEN [db EXCEPT !.n[id] = [row EXCEPT !.updatedAt = now]]
    ELSE db

GetPendingMedias(db) == RowsOf(db.m, {k \in DOMAIN db.m : db.m[k].status = "pending"})

\* 0 stands for bolthold.ErrNotFound.
GetMediaByIMDBID(db, imdb) ==
    LET found == RowsOf(db.m, {k \in DOMAIN db.m : db.m[k].imdb = imdb})
    IN IF found = <<>> THEN 0 ELSE found[1]

GetNZBByTorBoxJobID(db, jobID) ==
    LET found == RowsOf(db.n, {k \in DOMAIN db.n : db.n[k].jobID = jobID})
    IN IF found = <<>> THEN 0 ELSE found[1]

GetNZBByTitle(db, title) ==
    LET found == RowsOf(db.n, {k \in DOMAIN db.n : db.n[k].title = title})
    IN IF found = <<>> THEN 0 ELSE found[1]

GetNZBByHash(db, hash) ==
    LET found == RowsOf(db.n, {k \in DOMAIN db.n : db.n[k].hash = hash})
    IN IF found = <<>> THEN 0 ELSE found[1]

GetBestCandidateNZB(db, mediaID) ==
    LET found == RowsOf(db.n, {k \in DOMAIN db.n : db.n[k].mediaID = mediaID /\ db.n[k].status = "candidate"})
    IN IF found = <<>> THEN 0 ELSE found[1]

GetNZBsByStatus(db, status) == RowsOf(db.n, {k \in DOMAIN db.n : db.n[k].status = status})

(***************************************************************************)
(* internal/controllers/download.go                                        *)
(*                                                                         *)
(* An operator takes the state it finds and what the outside answers, and  *)
(* gives [db, err]: the state it leaves and whether it returned an error.  *)
(***************************************************************************)
\* What the indexer and TorBox answer to one DownloadNZB:
\*   fetch_err      the indexer does not deliver the NZB file
\*   upload_err     TorBox refuses the upload
\*   queued         TorBox creates the download
\*   cached_wait    TorBox reports a cached download that FindDownloadByID
\*                  does not (yet) report as cached
\*   cached_ready   TorBox reports a cached download and confirms it
DownloadAnswers == {"fetch_err", "upload_err", "queued", "cached_wait", "cached_ready"}

HandleCachedDownload(db, id, answer) ==
    IF answer # "cached_ready"
    THEN db
    ELSE LET db1 == UpdateNZB(db, id, [db.n[id] EXCEPT !.status = "completed"])
             mid == db.n[id].mediaID
         IN IF mid \in DOMAIN db1.m
            THEN UpdateMedia(db1, mid, [db1.m[mid] EXCEPT !.status = "completed"])
            ELSE db1

\* DownloadNZB as it would be if the job id TorBox returns were not stored on
\* the NZB row before the media is set to downloading.
DownloadNZBHandleNotSaved(db, id, answer) ==
    LET nzb == db.n[id]
    IN IF answer \in {"fetch_err", "upload_err"}
       THEN [db |-> UpdateNZB(db, id, [nzb EXCEPT !.status = "failed", !.reason = "submit"]),
             err |-> TRUE]
       ELSE LET created == [db EXCEPT !.jobs = @ \cup {db.nextJob}, !.nextJob = @ + 1]
                db1 == UpdateNZB(created, id, [nzb EXCEPT !.status = "downloading"])
            IN IF nzb.mediaID \notin DOMAIN db1.m
               THEN [db |-> db1, err |-> TRUE]
               ELSE [db |-> UpdateMedia(db1, nzb.mediaID,
                                [db1.m[nzb.mediaID] EXCEPT !.status = "downloading"]),
                     err |-> FALSE]

DownloadNZB(db, id, answer) ==
    LET nzb == db.n[id]
    IN IF answer = "fetch_err"
       THEN [db |-> UpdateNZB(db, id, [nzb EXCEPT !.status = "failed", !.reason = "submit"]),
             err |-> TRUE]
       ELSE IF answer = "upload_err"
       THEN [db |-> UpdateNZB(db, id, [nzb EXCEPT !.status = "failed", !.reason = "submit"]),
             err |-> TRUE]
       ELSE LET created == [db EXCEPT !.jobs = @ \cup {db.nextJob}, !.nextJob = @ + 1]
                db1 == UpdateNZB(created, id,
                                 [nzb EXCEPT !.jobID = db.nextJob, !.hash = nzb.title,
                                             !.status = "downloading"])
            IN IF nzb.mediaID \notin DOMAIN db1.m
               THEN [db |-> db1, err |-> TRUE]
               ELSE LET db2 == UpdateMedia(db1, nzb.mediaID,
                                   [db1.m[nzb.mediaID] EXCEPT !.status = "downloading"])
                    IN [db |-> IF answer \in {"cached_wait", "cached_ready"}
                               THEN HandleCachedDownload(db2, id, answer)
                               ELSE db2,
                        err |-> FALSE]

RetryWithNextCandidate(db, mediaID, answer) ==
    LET id == GetBestCandidateNZB(db, mediaID)
    IN IF id = 0
       THEN [db |-> db, err |-> TRUE]
       ELSE DownloadNZB(UpdateNZB(db, id, [db.n[id] EXCEPT !.status = "selected"]),
                        id, answer)

\* RestartDownload: the NZB of the job is submitted again under a new job,
\* or, its retries used up, the next candidate is.
RestartDownload(db, jobID, answer) ==
    LET id == GetNZBByTorBoxJobID(db, jobID)
    IN IF id = 0
       THEN [db |-> db, err |-> TRUE]
       ELSE IF db.n[id].retry >= maxRetries
       THEN RetryWithNextCandidate(db, db.n[id].mediaID, answer)
       ELSE LET nzb == [db.n[id] EXCEPT !.retry = @ + 1]
            IN IF answer \in {"fetch_err", "upload_err"}
               THEN [db |-> UpdateNZB(db, id, [nzb EXCEPT !.status = "failed",
                                                          !.reason = "restart"]),
                     err |-> TRUE]
               ELSE LET created == [db EXCEPT !.jobs = @ \cup {db.nextJob}, !.nextJob = @ + 1]
                    IN [db |-> UpdateNZB(created, id,
                                   [nzb EXCEPT !.jobID = db.nextJob, !.status = "downloading",
                                               !.reason = ""]),
                        err |-> FALSE]

DeleteJob(db, jobID) == [db EXCEPT !.jobs = @ \ {jobID}]

HandleWebhook(db, jobID, status, answer) ==
    LET id == GetNZBByTorBoxJobID(db, jobID)
    IN IF id = 0 \/ db.n[id].mediaID \notin DOMAIN db.m
       THEN [db |-> db, err |-> TRUE]
       ELSE LET nzb == db.n[id]
                media == db.m[nzb.mediaID]
            IN IF status = "completed"
               THEN [db |-> UpdateMedia(
                              UpdateNZB(db, id, [nzb EXCEPT !.status = "completed"]),
                              nzb.mediaID, [media EXCEPT !.status = "completed"]),
                     err |-> FALSE]
               ELSE IF status = "failed"
               THEN LET deleted == IF nzb.jobID # 0 THEN DeleteJob(db, nzb.jobID) ELSE db
                        failed == [nzb EXCEPT !.status = "failed", !.reason = "",
                                              !.retry = @ + 1]
                        retried == IF failed.retry < maxRetries
                                   THEN RetryWithNextCandidate(deleted, nzb.mediaID, answer)
                                   ELSE [db |-> deleted, err |-> TRUE]
                        \* the media read before the retry is the one written back
                        after == IF retried.err
                                 THEN [media EXCEPT !.status = "failed"]
                                 ELSE media
                    IN [db |-> UpdateMedia(UpdateNZB(retried.db, id, failed),
                                           nzb.mediaID, after),
                        err |-> FALSE]
               ELSE [db |-> UpdateMedia(UpdateNZB(db, id, nzb), nzb.mediaID, media),
                     err |-> FALSE]

HandleWebhookByName(db, downloadName, status, answer) ==
    LET id == GetNZBByTitle(db, downloadName)
    IN IF id = 0
       THEN [db |-> db, err |-> TRUE]
       ELSE HandleWebhook(db, db.n[id].jobID, status, answer)

HandleWebhookByHash(db, hash, status, answer) ==
    LET id == GetNZBByHash(db, hash)
    IN IF id = 0
       THEN [db |-> db, err |-> TRUE]
       ELSE HandleWebhook(db, db.n[id].jobID, status, answer)

RECURSIVE StuckLoop(_, _, _, _)
\* The loop of CheckStuckDownloads over the rows GetNZBsByStatus returned:
\* snapshot maps the ids to the rows as they were read.
StuckLoop(db, ids, snapshot, answers) ==
    IF ids = <<>>
    THEN db
    ELSE LET id == Head(ids)
             nzb == snapshot[id]
         IN IF ~(now - nzb.updatedAt > StuckTimeout)
            THEN StuckLoop(db, Tail(ids), snapshot, answers)
            ELSE LET deleted == IF nzb.jobID # 0 THEN DeleteJob(db, nzb.jobID) ELSE db
                     failed == [nzb EXCEPT !.status = "failed", !.reason = "timeout",
                                           !.retry = @ + 1]
                     db1 == UpdateNZB(deleted, id, failed)
                     retried == IF failed.retry < maxRetries
                                THEN RetryWithNextCandidate(db1, nzb.mediaID, answers[id])
                                ELSE [db |-> db1, err |-> TRUE]
                     db2 == IF retried.err /\ nzb.mediaID \in DOMAIN retried.db.m
                            THEN UpdateMedia(retried.db, nzb.mediaID,
                                     [retried.db.m[nzb.mediaID] EXCEPT !.status = "failed"])
                            ELSE retried.db
                 IN StuckLoop(db2, Tail(ids), snapshot, answers)

\* CheckStuckDownloads as it would be if it returned after the first stuck
\* download it handled.
CheckStuckDownloadsFirstOnly(db, answers) ==
    LET rows == GetNZBsByStatus(db, "downloading")
        stuck == SelectSeq(rows, LAMBDA id : now - db.n[id].updatedAt > StuckTimeout)
    IN StuckLoop(db, SubSeq(stuck, 1, 1), db.n, answers)

CheckStuckDownloads(db, answers) ==
    StuckLoop(db, GetNZBsByStatus(db, "downloading"), db.n, answers)

(***************************************************************************)
(* internal/controllers/strategy.go, internal/controllers/search.go        *)
(***************************************************************************)
\* DetermineStrategy for a media whose tracker progress could be read.
DetermineStrategy(media) ==
    IF MediaTypeOf(media.imdb) = "movie" THEN "single_movie"
    ELSE IF media.source = "watchlist" THEN "single_episode"
    ELSE "season_pack"

\* The search results of SearchMedia, by strategy: the movie's releases; the
\* next episode's releases; or the season's packs together with the releases
\* of (at most) the first three unwatched episodes.
SearchResults(media, strategy) ==
    LET mine == {k \in indexer : Rel[k].imdb = media.imdb}
        wanted == {SeasonEpisodes[i] : i \in 1..Min({3, Len(SeasonEpisodes)})}
    IN IF strategy = "single_movie" THEN mine
       ELSE IF strategy = "single_episode"
       THEN {k \in mine : ~Rel[k].pack /\ Rel[k].episode = SeasonEpisodes[1]}
       ELSE {k \in mine : Rel[k].pack \/ Rel[k].episode \in wanted}

\* utils.RankByQuality's comparison: season packs first, then the higher
\* quality, then the larger size.
RanksBefore(a, b) ==
    IF a.pack # b.pack THEN a.pack
    ELSE IF a.quality # b.quality THEN a.quality > b.quality
    ELSE a.size > b.size

RECURSIVE RankByQuality(_)
RankByQuality(S) ==
    IF S = {} THEN <<>>
    ELSE LET best == CHOOSE x \in S : \A y \in S \ {x} : RanksBefore(x, y)
         IN <<best>> \o RankByQuality(S \ {best})

\* The NZB processResults builds from one search result, before ranking
\* (quality and size are what it is ranked by).
NewNZB(mediaID, r) ==
    [mediaID |-> mediaID, title |-> r.title,
     status |-> IF r.blk THEN "blacklisted" ELSE "candidate",
     jobID |-> 0, hash |-> "", retry |-> 0, reason |-> "", updatedAt |-> 0,
     pack |-> ~r.blk /\ r.pack, episode |-> IF r.blk THEN 0 ELSE r.episode,
     quality |-> r.quality, size |-> r.size]

RECURSIVE SelectEpisodes(_, _, _, _)
\* The second selection loop of processResults: the positions it selects.
SelectEpisodes(ranked, i, selectedEpisodes, hasEpisodes) ==
    IF i > Len(ranked) THEN {}
    ELSE IF ranked[i].status # "candidate"
    THEN SelectEpisodes(ranked, i + 1, selectedEpisodes, hasEpisodes)
    ELSE IF ranked[i].episode # 0
    THEN IF ranked[i].episode \in selectedEpisodes
         THEN SelectEpisodes(ranked, i + 1, selectedEpisodes, TRUE)
         ELSE {i} \cup SelectEpisodes(ranked, i + 1,
                                      selectedEpisodes \cup {ranked[i].episode}, TRUE)
    ELSE IF ~hasEpisodes THEN {i}
    ELSE SelectEpisodes(ranked, i + 1, selectedEpisodes, hasEpisodes)

processResults(mediaID, results) ==
    LET kept == {k \in results :
                    Rel[k].blk
                    \/ ~(/\ MediaTypeOf(Rel[k].imdb) = "movie"
                         /\ Rel[k].year # 0
                         /\ MediaYearOf(Rel[k].imdb) # 0
                         /\ Rel[k].year # MediaYearOf(Rel[k].imdb))}
        ranked == RankByQuality({NewNZB(mediaID, Rel[k]) : k \in kept})
        packs == {i \in 1..Len(ranked) : ranked[i].pack /\ ranked[i].status = "candidate"}
        selected == IF packs # {} THEN {Min(packs)}
                    ELSE SelectEpisodes(ranked, 1, {}, FALSE)
    IN [i \in 1..Len(ranked) |->
           IF i \in selected THEN [ranked[i] EXCEPT !.status = "selected"] ELSE ranked[i]]

\* The row bolthold keeps of an NZB.
NZBRow(nzb) ==
    [mediaID |-> nzb.mediaID, title |-> nzb.title, status |-> nzb.status,
     jobID |-> nzb.jobID, hash |-> nzb.hash, retry |-> nzb.retry,
     reason |-> nzb.reason, updatedAt |-> nzb.updatedAt,
     pack |-> nzb.pack, episode |-> nzb.episode, watched |-> {},
     quality |-> nzb.quality, size |-> nzb.size]

RECURSIVE CreateAll(_, _)
CreateAll(db, found) ==
    IF found = <<>> THEN db
    ELSE CreateAll(CreateNZB(db, NZBRow(Head(found))), Tail(found))

\* SearchMedia: the rows it created, in ranked order, are db.seqN + 1 .. .
SearchMedia(db, mediaID, strategy) ==
    CreateAll(db, processResults(mediaID, SearchResults(db.m[mediaID], strategy)))

(***************************************************************************)
(* Scheduler.runSearch (the search and download job)                       *)
(***************************************************************************)
\* What the outside answers while one pending media is processed: whether
\* the tracker's progress and the indexer's search could be read, and the
\* answers to the downloads of the first and the second selected NZB.
\* A failed search under the season-pack strategy is the season search
\* failing, which searchFavorites only logs: the episodes are still found.
SearchInputs ==
    [pre : {"strategy_err", "search_err", "ok"}, dl : [1..2 -> DownloadAnswers]]

\* The inputs that make a difference for one media: a movie's strategy reads
\* no progress, and only as many downloads are answered as NZBs are selected.
SearchInputsFor(media) ==
    LET strategy == DetermineStrategy(media)
        Found(pre) == processResults(0,
                          {k \in SearchResults(media, strategy) :
                               pre = "search_err" => ~Rel[k].pack})
        Selected(pre) == IF pre = "strategy_err"
                            \/ (pre = "search_err" /\ strategy # "season_pack")
                         THEN 0
                         ELSE Cardinality({i \in 1..Len(Found(pre)) :
                                              Found(pre)[i].status = "selected"})
    IN {inp \in SearchInputs :
           /\ inp.pre = "strategy_err" => strategy # "single_movie"
           /\ \A j \in 1..2 : j > Selected(inp.pre) => inp.dl[j] = "queued"}

RECURSIVE DownloadAll(_, _, _, _)
DownloadAll(db, ids, dl, failed) ==
    IF ids = <<>> THEN [db |-> db, err |-> failed]
    ELSE LET r == DownloadNZB(db, Head(ids), Head(dl))
         IN DownloadAll(r.db, Tail(ids), Tail(dl), failed \/ r.err)

\* One iteration of runSearch's loop; media is the row GetPendingMedias read.
SearchOne(db, mediaID, inp) ==
    LET media == [db.m[mediaID] EXCEPT !.status = "searching"]
        db1 == UpdateMedia(db, mediaID, media)
        strategy == DetermineStrategy(media)
        searched == IF inp.pre = "search_err"
                    THEN CreateAll(db1, processResults(mediaID,
                             {k \in SearchResults(media, strategy) : ~Rel[k].pack}))
                    ELSE SearchMedia(db1, mediaID, strategy)
        created == (db1.seqN + 1)..searched.seqN
        selectedNZBs == SetToSeq({id \in created : searched.n[id].status = "selected"})
        downloaded == DownloadAll(searched, selectedNZBs, inp.dl, FALSE)
    IN IF inp.pre = "strategy_err" \/ (inp.pre = "search_err" /\ strategy # "season_pack")
       THEN UpdateMedia(db1, mediaID, [media EXCEPT !.status = "failed"])
       ELSE IF created = {}
       THEN UpdateMedia(searched, mediaID, [media EXCEPT !.status = "pending"])
       ELSE IF selectedNZBs = <<>>
       THEN UpdateMedia(searched, mediaID, [media EXCEPT !.status = "failed"])
       ELSE IF downloaded.err /\ Len(selectedNZBs) = 1
       THEN UpdateMedia(downloaded.db, mediaID, [media EXCEPT !.status = "failed"])
       ELSE downloaded.db

RECURSIVE runSearch(_, _, _)
runSearch(db, pending, inputs) ==
    IF pending = <<>> THEN db
    ELSE runSearch(SearchOne(db, Head(pending), inputs[Head(pending)]),
                   Tail(pending), inputs)

(***************************************************************************)
(* internal/controllers/search.go (SyncController), cleanup.go             *)
(***************************************************************************)
MarkAllMediasNotInTrakt(db) ==
    [db EXCEPT !.m = [id \in DOMAIN db.m |-> [db.m[id] EXCEPT !.inTrakt = FALSE]]]

RECURSIVE SyncItems(_, _, _)
\* The loop of syncFavorites / syncWatchlist over the list's items.
SyncItems(db, items, source) ==
    IF items = <<>> THEN db
    ELSE LET id == GetMediaByIMDBID(db, Head(items))
             db1 == IF id # 0
                    THEN UpdateMedia(db, id,
                             [db.m[id] EXCEPT !.inTrakt = TRUE, !.source = source,
                                  !.status = IF @ = "failed" THEN "pending" ELSE @])
                    ELSE CreateMedia(db, [imdb |-> Head(items), source |-> source,
                                          status |-> "pending", watched |-> FALSE,
                                          inTrakt |-> TRUE])
         IN SyncItems(db1, Tail(items), source)

\* One list of one media type, as a sequence; nothing when its fetch failed.
ListItems(list, mtype, step, fails) ==
    IF step \in fails THEN <<>>
    ELSE IF mtype = "tv" THEN (IF ShowIMDB \in list THEN <<ShowIMDB>> ELSE <<>>)
    ELSE (IF MovieIMDB \in list THEN <<MovieIMDB>> ELSE <<>>)

syncWatched(db, watched, fails) ==
    LET id == GetMediaByIMDBID(db, MovieIMDB)
    IN IF "watched" \in fails \/ ~watched.movie \/ id = 0 THEN db
       ELSE UpdateMedia(db, id, [db.m[id] EXCEPT !.watched = TRUE])

\* Marks the watched episodes in the episode lists of season-pack rows.
updateEpisodeWatchedStatus(db, watched, fails) ==
    LET seen == IF "watched" \in fails THEN {}
                ELSE (watched.episodes \cup watched.other) \cap Range(SeasonEpisodes)
        hit == {id \in DOMAIN db.n :
                   /\ db.n[id].pack
                   /\ db.n[id].mediaID \in DOMAIN db.m
                   /\ db.m[db.n[id].mediaID].imdb = ShowIMDB
                   /\ seen # {}}
    IN [db EXCEPT !.n = [id \in DOMAIN db.n |->
            IF id \in hit
            THEN [db.n[id] EXCEPT !.watched = @ \cup seen, !.updatedAt = now]
            ELSE db.n[id]]]

\* CleanupRemovedFromTrakt as it would be if it spared the media that have
\* a download at TorBox.
CleanupRemovedSparingDownloads(db) ==
    LET gone == {id \in DOMAIN db.m :
                    /\ ~db.m[id].inTrakt
                    /\ \A k \in DOMAIN db.n : db.n[k].mediaID = id => db.n[k].jobID = 0}
        rows == {id \in DOMAIN db.n : db.n[id].mediaID \in gone}
    IN [db EXCEPT !.n = [id \in DOMAIN db.n \ rows |-> db.n[id]],
                  !.m = [id \in DOMAIN db.m \ gone |-> db.m[id]]]

CleanupRemovedFromTrakt(db) ==
    LET gone == {id \in DOMAIN db.m : ~db.m[id].inTrakt}
        rows == {id \in DOMAIN db.n : db.n[id].mediaID \in gone}
    IN [db EXCEPT !.jobs = @ \ {db.n[id].jobID : id \in rows},
                  !.n = [id \in DOMAIN db.n \ rows |-> db.n[id]],
                  !.m = [id \in DOMAIN db.m \ gone |-> db.m[id]]]

\* The fetches of one sync pass that can fail.
SyncSteps == {"fav_shows", "fav_movies", "wl_shows", "wl_movies", "watched"}

SyncAll(db, lists, watched, fails) ==
    LET db0 == MarkAllMediasNotInTrakt(db)
        db1 == SyncItems(db0, ListItems(lists.fav, "tv", "fav_shows", fails), "favorites")
        db2 == SyncItems(db1, ListItems(lists.fav, "movie", "fav_movies", fails), "favorites")
        db3 == SyncItems(db2, ListItems(lists.wl, "tv", "wl_shows", fails), "watchlist")
        db4 == SyncItems(db3, ListItems(lists.wl, "movie", "wl_movies", fails), "watchlist")
        db5 == updateEpisodeWatchedStatus(syncWatched(db4, watched, fails), watched, fails)
    IN IF fails = {} THEN CleanupRemovedFromTrakt(db5) ELSE db5

(***************************************************************************)
(* internal/controllers/cleanup.go (CleanupController)                     *)
(***************************************************************************)
GetNZBsByMediaID(db, mediaID) == RowsOf(db.n, {k \in DOMAIN db.n : db.n[k].mediaID = mediaID})

\* Deletes the TorBox jobs of the media's NZBs, the NZBs and the media.
deleteMedia(db, mediaID) ==
    LET rows == Range(GetNZBsByMediaID(db, mediaID))
    IN [db EXCEPT !.jobs = @ \ {db.n[id].jobID : id \in rows},
                  !.n = [id \in DOMAIN db.n \ rows |-> db.n[id]],
                  !.m = [id \in DOMAIN db.m \ {mediaID} |-> db.m[id]]]

\* cleanupMovie as it would be without the test of InTrakt.
cleanupMovieAnyFlag(db) ==
    LET id == GetMediaByIMDBID(db, MovieIMDB)
    IN IF id = 0 THEN db ELSE deleteMedia(db, id)

cleanupMovie(db) ==
    LET id == GetMediaByIMDBID(db, MovieIMDB)
    IN IF id = 0 \/ ~db.m[id].inTrakt THEN db ELSE deleteMedia(db, id)

\* nzb is the row as cleanupEpisode read it; the episode list of a pack is
\* the season's (SeasonEpisodes), its flags are the row's watched set.
handleSeasonPackWatched(db, id, nzb, episode) ==
    LET row == [nzb EXCEPT !.watched = @ \cup {episode}]
        db1 == UpdateNZB(db, id, row)
    IN IF episode \notin Range(SeasonEpisodes) \/ id \notin DOMAIN db.n THEN db
       ELSE IF SeasonEpisodes[Len(SeasonEpisodes)] \in row.watched
                /\ nzb.mediaID \in DOMAIN db1.m
       THEN deleteMedia(db1, nzb.mediaID)
       ELSE db1

RECURSIVE PacksLoop(_, _, _, _)
\* The loop of cleanupEpisode over the NZBs of one media; a Media row carries
\* no season or episode number, so that the rows of single episodes are
\* passed over.
PacksLoop(db, ids, snapshot, episode) ==
    IF ids = <<>> THEN db
    ELSE PacksLoop(IF snapshot[Head(ids)].pack
                   THEN handleSeasonPackWatched(db, Head(ids), snapshot[Head(ids)], episode)
                   ELSE db,
                   Tail(ids), snapshot, episode)

RECURSIVE cleanupEpisode(_, _, _, _)
\* The loop over allMedias (the rows GetAllMedias returned) for one watched
\* episode of the show.
cleanupEpisode(db, mediaIDs, allMedias, episode) ==
    IF mediaIDs = <<>> THEN db
    ELSE LET id == Head(mediaIDs)
         IN cleanupEpisode(IF allMedias[id].imdb = ShowIMDB /\ allMedias[id].inTrakt
                           THEN PacksLoop(db, GetNZBsByMediaID(db, id), db.n, episode)
                           ELSE db,
                           Tail(mediaIDs), allMedias, episode)

RECURSIVE WatchedEpisodesLoop(_, _)
WatchedEpisodesLoop(db, episodes) ==
    IF episodes = <<>> THEN db
    ELSE WatchedEpisodesLoop(cleanupEpisode(db, RowsOf(db.m, DOMAIN db.m), db.m, Head(episodes)),
                             Tail(episodes))

\* Scheduler.runCleanupWatched, which is CleanupController.CleanupWatched;
\* watched is what GetRecentlyWatched returns when it answers (ok).
runCleanupWatched(db, watched, ok) ==
    IF ~ok THEN db
    ELSE WatchedEpisodesLoop(IF watched.movie THEN cleanupMovie(db) ELSE db,
                             SetToSeq(watched.episodes \cup watched.other))

(***************************************************************************)
(* The operations of the controllers generation as actions.                *)
(***************************************************************************)
\* The counters stay within the model's bounds.
WithinBounds(db) ==
    /\ db.seqM <= MaxMedia
    /\ db.seqN <= MaxNZB
    /\ db.nextJob <= MaxJobs + 1
    /\ \A id \in DOMAIN db.n : db.n[id].retry <= maxRetries

Commit(db) ==
    /\ WithinBounds(db)
    /\ Store(db)
    /\ UNCHANGED <<now, indexer, tracker>>
    /\ UNCHANGED <<svcVars, auxVars>>

Ran(job) == searches' = IF job = "search" THEN searches + 1 ELSE searches

\* The cron job "sync".
RunSync ==
    \E fails \in {f \in SUBSET SyncSteps : Cardinality(f) <= 1} :
        Commit(SyncAll(DB, tracker, tracker, fails)) /\ Ran("sync")

\* The cron job "search", over all pending medias.
RunSearch ==
    LET pending == GetPendingMedias(DB)
    IN /\ pending # <<>>
       /\ searches < MaxSearches
       /\ Ran("search")
       /\ \E inputs \in [Range(pending) -> SearchInputs] :
              /\ \A id \in Range(pending) : inputs[id] \in SearchInputsFor(medias[id])
              /\ Commit(runSearch(DB, pending, inputs))

\* TorBox notifies about a download it holds: the message names it, or,
\* failing that, carries its hash (WebhookHandler.ServeHTTP); the status is
\* what GetStatus reads from the notification's title.
Webhook ==
    \E job \in jobs, by \in {"name", "hash"},
       status \in {"completed", "failed", "unknown"} :
        \E answer \in IF status = "failed" THEN DownloadAnswers ELSE {"queued"} :
            LET sent == nzbs[GetNZBByTorBoxJobID(DB, job)]
                r == IF by = "name"
                     THEN HandleWebhookByName(DB, sent.title, status, answer)
                     ELSE HandleWebhookByHash(DB, sent.hash, status, answer)
            IN /\ GetNZBByTorBoxJobID(DB, job) # 0
               /\ ~r.err
               /\ Commit(r.db)
               /\ Ran("webhook")

\* The cron job "stuck download check".
RunStuckDownloadCheck ==
    LET stuck == {id \in Range(GetNZBsByStatus(DB, "downloading")) :
                     now - nzbs[id].updatedAt > StuckTimeout}
    IN /\ stuck # {}
       /\ \E answers \in [stuck -> DownloadAnswers] :
              Commit(CheckStuckDownloads(DB, answers)) /\ Ran("stuck")

\* Time passes: more than the stuck timeout.
Tick ==
    /\ now + StuckTimeout + 1 <= MaxTime
    /\ now' = now + StuckTimeout + 1
    /\ UNCHANGED <<medias, nzbs, seqM, seqN, jobs, nextJob, indexer, tracker, searches>>
    /\ UNCHANGED <<svcVars, auxVars>>

\* The cron job "cleanup_watched".
RunCleanupWatched ==
    \E ok \in BOOLEAN :
        /\ ok => (tracker.movie \/ tracker.episodes # {} \/ tracker.other # {})
        /\ Commit(runCleanupWatched(DB, tracker, ok)) /\ Ran("cleanup")

\* The user watches the movie or an episode of the show (of the season the
\* catalog holds or of another), which the catalog holds.
MarkWatched ==
    /\ \/ /\ ~tracker.movie /\ GetMediaByIMDBID(DB, MovieIMDB) # 0
          /\ tracker' = [tracker EXCEPT !.movie = TRUE]
       \/ /\ GetMediaByIMDBID(DB, ShowIMDB) # 0
          /\ \E e \in Range(SeasonEpisodes) \ tracker.episodes :
                 tracker' = [tracker EXCEPT !.episodes = @ \cup {e}]
       \/ /\ GetMediaByIMDBID(DB, ShowIMDB) # 0
          /\ \E e \in Range(SeasonEpisodes) \ tracker.other :
                 tracker' = [tracker EXCEPT !.other = @ \cup {e}]
    /\ UNCHANGED <<medias, nzbs, seqM, seqN, jobs, nextJob, now, indexer, searches>>
    /\ UNCHANGED <<svcVars, auxVars>>

\* The user takes a title off the favorites or the watchlist.
RemoveFromList ==
    /\ \/ \E i \in tracker.fav : tracker' = [tracker EXCEPT !.fav = @ \ {i}]
       \/ \E i \in tracker.wl : tracker' = [tracker EXCEPT !.wl = @ \ {i}]
    /\ UNCHANGED <<medias, nzbs, seqM, seqN, jobs, nextJob, now, indexer, searches>>
    /\ UNCHANGED <<svcVars, auxVars>>

(***************************************************************************)
(* The upstream world of the services generation: the tracker lists one    *)
(* movie and the next two episodes of one show; the indexer knows two      *)
(* releases of the movie, a pack of the season and one release for each    *)
(* episode.  The scorer and the configured thresholds are part of that     *)
(* world: a release carries its total score and whether it passes them.    *)
(***************************************************************************)
TraktItem(t, i, s, n) == [traktID |-> t, imdb |-> i, season |-> s, number |-> n]

TraktMovies == <<TraktItem(1, MovieIMDB, 0, 0)>>

TraktEpisodes == <<TraktItem(2, ShowIMDB, 1, 1), TraktItem(3, ShowIMDB, 1, 2)>>

\* What the tracker may list: the movie, or the show.
SvcWorlds ==
    { [movies |-> TraktMovies, episodes |-> <<>>],
      [movies |-> <<>>, episodes |-> TraktEpisodes] }

NewsnabResult(t, s, e, total, ok, blk) ==
    [title |-> t, season |-> s, episode |-> e, total |-> total, passes |-> ok,
     blk |-> blk]

SearchMovie(imdb) ==
    IF imdb = MovieIMDB
    THEN <<NewsnabResult("Movie.2020.2160p.BluRay-BAD", 0, 0, 170, TRUE, TRUE),
           NewsnabResult("Movie.2020.720p.WEB", 0, 0, 120, TRUE, FALSE),
           NewsnabResult("Movie.2020.1080p.BluRay", 0, 0, 150, TRUE, FALSE)>>
    ELSE <<>>

SearchSeasonPack(imdb, season) ==
    IF imdb = ShowIMDB /\ season = 1
    THEN <<NewsnabResult("Show.S01.1080p.WEB", 1, 0, 140, TRUE, FALSE)>>
    ELSE <<>>

SearchEpisode(imdb, season, number) ==
    IF imdb = ShowIMDB /\ season = 1 /\ number = 1
    THEN <<NewsnabResult("Show.S01E01.1080p.WEB", 1, 1, 130, TRUE, FALSE)>>
    ELSE IF imdb = ShowIMDB /\ season = 1 /\ number = 2
    THEN <<NewsnabResult("Show.S01E02.480p.CAM", 1, 2, 40, FALSE, FALSE)>>
    ELSE <<>>

\* The tables and NZBGet as one value.
SDB == [media |-> smedia, nzb |-> snzb, get |-> nzbget]

IsMovie(m) == m.season = 0 /\ m.number = 0

IsEpisode(m) == m.season > 0 /\ m.number > 0

IsSeasonPack(n) == n.season > 0 /\ n.episode = 0

(***************************************************************************)
(* The repositories (gorm on sqlite).                                      *)
(***************************************************************************)
\* MediaRepository.Update: Save writes every column of the struct it gets.
RepoUpdate(s, m) ==
    [s EXCEPT !.media = [t \in DOMAIN s.media \cup {m.traktID} |->
                            IF t = m.traktID THEN m ELSE s.media[t]]]

RepoCreate(s, m) ==
    [s EXCEPT !.media = [t \in DOMAIN s.media \cup {m.traktID} |->
                            IF t = m.traktID THEN m ELSE s.media[t]]]

\* MediaRepository.Upsert: of the existing row only CreatedAt is kept.
Upsert(s, m) ==
    IF m.traktID \in DOMAIN s.media THEN RepoUpdate(s, m) ELSE RepoCreate(s, m)

FindNotOnDisk(s) == SetToSeq({t \in DOMAIN s.media : ~s.media[t].onDisk})

DeleteByTraktIDs(s, ids) ==
    [s EXCEPT !.media = [t \in DOMAIN s.media \ ids |-> s.media[t]]]

NZBCreate(s, n) == [s EXCEPT !.nzb = Append(s.nzb, n)]

\* The first row, by descending total score and then by id, among the rows
\* matching the query's condition; 0 stands for ErrNotFound.
BestRow(s, matching) ==
    LET rows == {id \in matching : ~s.nzb[id].failed /\ ~s.nzb[id].deleted}
        top == {id \in rows : \A o \in rows : s.nzb[o].total <= s.nzb[id].total}
    IN IF rows = {} THEN 0 ELSE Min(top)

FindBestByTraktID(s, traktID) ==
    BestRow(s, {id \in DOMAIN s.nzb : s.nzb[id].traktID = traktID})

FindSeasonPackByIMDB(s, imdb, season) ==
    BestRow(s, {id \in DOMAIN s.nzb : /\ s.nzb[id].imdb = imdb
                                      /\ s.nzb[id].season = season
                                      /\ s.nzb[id].episode = 0})

FindBestSeasonPack(s, imdb, season) ==
    BestRow(s, {id \in DOMAIN s.nzb : /\ s.nzb[id].imdb = imdb
                                      /\ s.nzb[id].season = season
                                      /\ IsSeasonPack(s.nzb[id])})

MarkAsFailedByTitle(s, title) ==
    [s EXCEPT !.nzb = [id \in DOMAIN s.nzb |->
        IF s.nzb[id].title = title THEN [s.nzb[id] EXCEPT !.failed = TRUE]
        ELSE s.nzb[id]]]

NZBDeleteByTraktIDs(s, ids) ==
    [s EXCEPT !.nzb = [id \in DOMAIN s.nzb |->
        IF s.nzb[id].traktID \in ids THEN [s.nzb[id] EXCEPT !.deleted = TRUE]
        ELSE s.nzb[id]]]

(***************************************************************************)
(* MediaService: the sync of the tracker's lists.                          *)
(***************************************************************************)
\* The struct SyncMovies and upsertEpisode build for a listed item: the
\* fields the tracker knows, the zero value in all others.
NewMedia(item) ==
    [traktID |-> item.traktID, imdb |-> item.imdb, season |-> item.season,
     number |-> item.number, onDisk |-> FALSE, path |-> "", downloadID |-> 0]

\* A watched cache of the tracker client: nil, or the ids it was filled with.
NilCache == [filled |-> FALSE, ids |-> {}]

\* Client.ClearWatchedCache: both caches are nil again.
ClearWatchedCache == [movie |-> NilCache, episode |-> NilCache]

\* fetchWatchedHistory without its check under the write lock.
doubleCheckSkipped(cache, mediaType) == FALSE

\* fetchWatchedHistory, under the write lock: was the cache populated by
\* another goroutine in the meantime?
doubleCheck(cache, mediaType) == cache[mediaType].filled

\* Client.fetchWatchedHistory for one media type: a cache that is not nil is
\* left alone; a nil one is made an empty map and then filled with the
\* history, which a failing request leaves empty.
fetchWatchedHistory(cache, mediaType, history, ok) ==
    IF doubleCheck(cache, mediaType) THEN cache
    ELSE [cache EXCEPT ![mediaType] = [filled |-> TRUE,
                                       ids |-> IF ok THEN history ELSE {}]]

RECURSIVE UpsertAll(_, _, _, _)
\* Upserts the listed items that IsWatched does not report as watched; an
\* item whose IsWatched call failed (failed is TRUE for the first call when
\* the fetch of the history fails) is skipped.
UpsertAll(s, items, watched, failed) ==
    IF items = <<>> THEN s
    ELSE LET item == Head(items)
         IN UpsertAll(IF failed \/ item.traktID \in watched
                      THEN s ELSE Upsert(s, NewMedia(item)),
                      Tail(items), watched, FALSE)

\* NZBGet forgets a download (CancelDownload, DeleteFromHistory).
Forget(s, ids) ==
    [s EXCEPT !.get = [d \in DOMAIN s.get |->
        IF d \in ids THEN [s.get[d] EXCEPT !.state = "gone"] ELSE s.get[d]]]

\* cleanupOrphanedMovies and cleanupOrphanedEpisodes: the rows that the Trakt
\* lists no longer hold lose their download, their NZBs and their row.
cleanupOrphaned(s, orphaned) ==
    LET handles == {s.media[t].downloadID : t \in orphaned} \cap DOMAIN s.get
    IN DeleteByTraktIDs(NZBDeleteByTraktIDs(Forget(s, handles), orphaned), orphaned)

\* The result is [s, cache]: the tables and the tracker client's caches.
SyncMovies(s, cache, movies, history, ok, okW) ==
    LET Listed(m) == \E i \in 1..Len(movies) : movies[i].traktID = m.traktID
        fetched == IF movies = <<>> THEN cache
                   ELSE fetchWatchedHistory(cache, "movie", history, okW)
        up == UpsertAll(s, movies, fetched.movie.ids,
                        ~cache.movie.filled /\ ~okW)
    IN IF ~ok THEN [s |-> s, cache |-> cache]
       ELSE [s |-> cleanupOrphaned(up, {t \in DOMAIN up.media :
                                    IsMovie(up.media[t]) /\ ~Listed(up.media[t])}),
             cache |-> fetched]

SyncEpisodes(s, cache, episodes, history, ok, okW) ==
    LET Listed(m) == \E i \in 1..Len(episodes) : episodes[i].imdb = m.imdb
        fetched == IF episodes = <<>> THEN cache
                   ELSE fetchWatchedHistory(cache, "episode", history, okW)
        up == UpsertAll(s, episodes, fetched.episode.ids,
                        ~cache.episode.filled /\ ~okW)
    IN IF ~ok THEN [s |-> s, cache |-> cache]
       ELSE [s |-> cleanupOrphaned(up, {t \in DOMAIN up.media :
                                    IsEpisode(up.media[t]) /\ ~Listed(up.media[t])}),
             cache |-> fetched]

\* runCycle, task 1: both syncs, which touch disjoint rows and caches.
SyncPass(s, cache, lists, history, okM, okE, okW) ==
    LET m == SyncMovies(s, cache, lists.movies, history, okM, okW)
    IN SyncEpisodes(m.s, m.cache, lists.episodes, history, okE, okW)

(***************************************************************************)
(* NZBService: the search of the indexer.                                  *)
(***************************************************************************)
NewNZBRow(media, r) ==
    [traktID |-> media.traktID, imdb |-> media.imdb, title |-> r.title,
     season |-> r.season, episode |-> r.episode, total |-> r.total,
     failed |-> FALSE, deleted |-> FALSE]

RECURSIVE ScoreLoop(_, _, _, _, _)
\* The loop of ValidateAndScore and its fallback; best is <<>> for nil.
ScoreLoop(s, media, results, count, best) ==
    IF results = <<>>
    THEN IF count = 0 /\ best # <<>>
            /\ ~(IsSeasonPack(best[1]) /\ best[1].imdb # ""
                 /\ FindSeasonPackByIMDB(s, best[1].imdb, best[1].season) # 0)
         THEN NZBCreate(s, best[1])
         ELSE s
    ELSE LET r == Head(results)
             nzb == NewNZBRow(media, r)
             better == IF best = <<>> THEN <<nzb>>
                       ELSE IF r.total > best[1].total THEN <<nzb>> ELSE best
         IN IF r.blk THEN ScoreLoop(s, media, Tail(results), count, best)
            ELSE IF ~r.passes THEN ScoreLoop(s, media, Tail(results), count, better)
            ELSE IF IsSeasonPack(nzb) /\ nzb.imdb # ""
                    /\ FindSeasonPackByIMDB(s, nzb.imdb, nzb.season) # 0
            THEN ScoreLoop(s, media, Tail(results), count, better)
            ELSE ScoreLoop(NZBCreate(s, nzb), media, Tail(results), count + 1, better)

ValidateAndScore(s, media, results) == ScoreLoop(s, media, results, 0, <<>>)

SearchAnswers == {"ok", "pack_err", "err"}

\* SearchForMedia; on an error of the indexer it stores nothing.
SearchForMedia(s, media, answer) ==
    IF IsMovie(media)
    THEN IF answer = "err" THEN s
         ELSE ValidateAndScore(s, media, SearchMovie(media.imdb))
    ELSE LET found == IF answer = "pack_err" THEN <<>>
                      ELSE SearchSeasonPack(media.imdb, media.season)
             validPacks == SelectSeq(found, LAMBDA r : r.episode = 0 /\ ~r.blk)
         IN IF validPacks # <<>> THEN ValidateAndScore(s, media, validPacks)
            ELSE IF answer = "err" THEN s
            ELSE ValidateAndScore(s, media,
                                  SearchEpisode(media.imdb, media.season, media.number))

RECURSIVE SearchEach(_, _, _)
SearchEach(s, list, answer) ==
    IF list = <<>> THEN s
    ELSE SearchEach(SearchForMedia(s, Head(list), answer), Tail(list), answer)

\* Orchestrator.searchAllNZBs, the searches taken one after the other.
searchAllNZBs(s, answer) ==
    LET ids == FindNotOnDisk(s)
    IN SearchEach(s, [i \in 1..Len(ids) |-> s.media[ids[i]]], answer)

(***************************************************************************)
(* CleanupService.                                                         *)
(***************************************************************************)
CleanupWatched(s, history) ==
    IF history = {} THEN s
    ELSE NZBDeleteByTraktIDs(DeleteByTraktIDs(s, history), history)

(***************************************************************************)
(* DownloadService.                                                        *)
(***************************************************************************)
\* QueueNZB: fetches the NZB file, appends it to NZBGet's queue and saves the
\* media struct it was given with the new download id.  "by" records which
\* service asked.
QueueNZB(s, media, nzb, by, ok) ==
    IF ~ok THEN [s |-> s, err |-> TRUE]
    ELSE LET id == Len(s.get) + 1
             queued == [s EXCEPT !.get = Append(s.get,
                          [title |-> nzb.title, traktID |-> media.traktID,
                           state |-> "queue", by |-> by])]
         IN [s |-> RepoUpdate(queued, [media EXCEPT !.downloadID = id]),
             err |-> FALSE]

\* The titles of this world differ in more than case, separators and
\* extension and none contains another: both isInQueue variants (substring
\* either way; equality after normalizeReleaseTitle) come down to equality.
isInQueue(title, queue) == \E item \in queue : item = title

isInHistory(downloadID, history) == downloadID # 0 /\ downloadID \in history

GetQueue(s) == {s.get[d].title : d \in {x \in DOMAIN s.get : s.get[x].state = "queue"}}

GetHistory(s) == {d \in DOMAIN s.get : s.get[d].state = "history"}

SeasonKey(media) == <<media.imdb, media.season>>

\* The release DownloadMedia picks for a media: the best pack of an episode's
\* season, else the media's own best; 0 if there is none.
PickNZB(s, media) ==
    LET pack == IF IsEpisode(media) /\ media.imdb # ""
                THEN FindBestSeasonPack(s, media.imdb, media.season) ELSE 0
    IN IF pack # 0 THEN pack ELSE FindBestByTraktID(s, media.traktID)

\* The body of the worker loop after the season check, for one media:
\* the state it leaves and whether it queued a season pack.
QueueOne(s, media, queue, history, ok) ==
    LET id == PickNZB(s, media)
        r == QueueNZB(s, media, s.nzb[id], "enqueue", ok)
    IN IF id = 0 \/ isInQueue(s.nzb[id].title, queue)
          \/ isInHistory(media.downloadID, history) \/ r.err
       THEN [s |-> s, queued |-> "", pack |-> FALSE]
       ELSE [s |-> r.s, queued |-> s.nzb[id].title,
             pack |-> IsEpisode(media) /\ IsSeasonPack(s.nzb[id])]

RECURSIVE SeqLoop(_, _, _, _, _, _, _)
\* The loop of the sequential DownloadMedia.
SeqLoop(s, list, queue, history, processedSeasons, queuedThisRun, ok) ==
    IF list = <<>> THEN s
    ELSE LET media == Head(list)
             id == PickNZB(s, media)
             r == QueueOne(s, media, queue, history, ok)
             skip == \/ media.downloadID > 0
                     \/ IsEpisode(media) /\ SeasonKey(media) \in processedSeasons
                     \/ id # 0 /\ s.nzb[id].title \in queuedThisRun
         IN IF skip \/ r.queued = ""
            THEN SeqLoop(s, Tail(list), queue, history, processedSeasons,
                         queuedThisRun, ok)
            ELSE SeqLoop(r.s, Tail(list), queue, history,
                         IF r.pack THEN processedSeasons \cup {SeasonKey(media)}
                         ELSE processedSeasons,
                         queuedThisRun \cup {r.queued}, ok)

\* DownloadMedia as one loop (the sequential variant).
DownloadMediaSeq(s, ok) ==
    LET ids == FindNotOnDisk(s)
    IN SeqLoop(s, [i \in 1..Len(ids) |-> s.media[ids[i]]],
               GetQueue(s), GetHistory(s), {}, {}, ok)

(***************************************************************************)
(* NotificationService.                                                    *)
(***************************************************************************)
handleSuccess(s, n) ==
    IF n.traktID \notin DOMAIN s.media THEN s
    ELSE LET media == [s.media[n.traktID] EXCEPT !.onDisk = TRUE, !.path = n.path]
             saved == RepoUpdate(s, media)
         IN IF n.downloadID > 0 THEN Forget(saved, {n.downloadID}) ELSE saved

handleFailure(s, n, ok) ==
    LET marked == MarkAsFailedByTitle(s, n.name)
        id == FindBestByTraktID(marked, n.traktID)
    IN IF n.traktID \notin DOMAIN marked.media \/ id = 0 THEN marked
       ELSE QueueNZB(marked, marked.media[n.traktID], marked.nzb[id], "retry", ok).s

HandleNotification(s, n, ok) ==
    IF n.status = "SUCCESS" THEN handleSuccess(s, n) ELSE handleFailure(s, n, ok)

(***************************************************************************)
(* The operations of the services generation as actions.                   *)
(***************************************************************************)
IdleWorker == [pc |-> "idle", media |-> <<>>]

\* No DownloadMedia is running.  A running one knows the id NZBGet gives the
\* first download queued from now on, the medias not yet handed to a worker,
\* the queue and the history as read at its start, and the seasons marked.
EnqIdle ==
    [running |-> FALSE, first |-> 0, jobs |-> <<>>, queue |-> {}, history |-> {},
     processedSeasons |-> {}, w |-> [i \in 1..numWorkers |-> IdleWorker]]

SvcWithinBounds(s) == Len(s.nzb) <= MaxRows /\ Len(s.get) <= MaxDownloads

SvcStore(s) ==
    /\ SvcWithinBounds(s)
    /\ smedia' = s.media
    /\ snzb' = s.nzb
    /\ nzbget' = s.get
    /\ UNCHANGED <<ctlVars, auxVars>>

\* Something outside the orchestrator acted (k = 1), or a call of this cycle
\* failed (k = 2): that many cycle ends are not comparable with their
\* predecessor.
Disturb(k) == disturbed' = IF disturbed < k THEN k ELSE disturbed

\* The answers to one sync pass: the fetch of the movie lists, of the show
\* lists and of the watched history.  An answer that is not asked for is
\* taken as given.
SyncAnswers ==
    {a \in [movies : BOOLEAN, episodes : BOOLEAN, watched : BOOLEAN] :
        a.watched \/ (a.movies /\ trakt.movies # <<>> /\ ~watchedCache.movie.filled)
                  \/ (a.episodes /\ trakt.episodes # <<>> /\ ~watchedCache.episode.filled)}

\* runCycle, task 1.
Sync ==
    /\ stage = "sync"
    /\ cycles < MaxCycles
    /\ \E a \in SyncAnswers :
           LET r == SyncPass(SDB, watchedCache, trakt, watchHistory,
                             a.movies, a.episodes, a.watched)
           IN /\ SvcStore(r.s)
              /\ watchedCache' = r.cache
              /\ Disturb(IF a.movies /\ a.episodes /\ a.watched THEN 0 ELSE 2)
    /\ stage' = "search"
    /\ UNCHANGED <<trakt, notifyChan, watchHistory, cycles, enq, cycleEnd>>

\* runCycle, task 2.
Search ==
    /\ stage = "search"
    /\ \E answer \in SearchAnswers :
           /\ SvcStore(searchAllNZBs(SDB, answer))
           /\ Disturb(IF answer = "ok" THEN 0 ELSE 2)
    /\ stage' = "download"
    /\ UNCHANGED <<trakt, notifyChan, watchHistory, watchedCache, cycles, enq, cycleEnd>>

\* runCycle, task 3, sequential variant.
Download ==
    /\ stage = "download"
    /\ \E ok \in BOOLEAN :
           /\ SvcStore(DownloadMediaSeq(SDB, ok))
           /\ Disturb(IF ok THEN 0 ELSE 2)
    /\ stage' = "cleanup"
    /\ UNCHANGED <<trakt, notifyChan, watchHistory, watchedCache, cycles, enq, cycleEnd>>

\* runCycle, task 4, and the end of the cycle.
Cleanup ==
    /\ stage = "cleanup"
    /\ SvcStore(CleanupWatched(SDB, watchHistory))
    /\ watchedCache' = IF watchHistory = {} THEN watchedCache ELSE ClearWatchedCache
    /\ stage' = "sync"
    /\ cycles' = cycles + 1
    /\ cycleEnd' = IF cycles >= 1 /\ disturbed = 0
                   THEN [prev |-> cycleEnd.last,
                         last |-> CleanupWatched(SDB, watchHistory),
                         comparable |-> TRUE]
                   ELSE [prev |-> CleanupWatched(SDB, watchHistory),
                         last |-> CleanupWatched(SDB, watchHistory),
                         comparable |-> FALSE]
    /\ disturbed' = IF disturbed > 0 THEN disturbed - 1 ELSE 0
    /\ UNCHANGED <<trakt, notifyChan, watchHistory, enq>>

\* runCycle, task 3, concurrent variant: DownloadMedia reads the medias not
\* on disk, NZBGet's queue and history, and hands the medias to its workers.
StartDownload ==
    /\ stage = "download"
    /\ ~enq.running
    /\ enq' = [EnqIdle EXCEPT !.running = TRUE,
                              !.first = Len(nzbget) + 1,
                              !.jobs = [i \in 1..Len(FindNotOnDisk(SDB)) |->
                                           smedia[FindNotOnDisk(SDB)[i]]],
                              !.queue = GetQueue(SDB),
                              !.history = GetHistory(SDB)]
    /\ UNCHANGED <<trakt, smedia, snzb, nzbget, notifyChan, watchHistory, watchedCache, stage, cycles,
                   cycleEnd, disturbed>>
    /\ UNCHANGED <<ctlVars, auxVars>>

\* A worker receives the next media from the jobs channel; the workers run
\* the same code, so of the idle ones the first is taken.
Receive(w) ==
    /\ enq.running
    /\ enq.w[w].pc = "idle"
    /\ \A o \in 1..(w - 1) : enq.w[o].pc # "idle"
    /\ enq.jobs # <<>>
    /\ enq' = [enq EXCEPT !.jobs = Tail(enq.jobs),
                          !.w[w] = [pc |-> IF IsEpisode(Head(enq.jobs))
                                           THEN "check" ELSE "queue",
                                    media |-> <<Head(enq.jobs)>>]]
    /\ UNCHANGED <<trakt, smedia, snzb, nzbget, notifyChan, watchHistory, watchedCache, stage, cycles,
                   cycleEnd, disturbed>>
    /\ UNCHANGED <<ctlVars, auxVars>>

\* The season check, under seasonMutex.
CheckSeason(w) ==
    /\ enq.w[w].pc = "check"
    /\ enq' = [enq EXCEPT !.w[w] =
                  IF SeasonKey(enq.w[w].media[1]) \in enq.processedSeasons
                  THEN IdleWorker ELSE [@ EXCEPT !.pc = "queue"]]
    /\ UNCHANGED <<trakt, smedia, snzb, nzbget, notifyChan, watchHistory, watchedCache, stage, cycles,
                   cycleEnd, disturbed>>
    /\ UNCHANGED <<ctlVars, auxVars>>

\* The worker picks the release and queues it.
Queue(w) ==
    /\ enq.w[w].pc = "queue"
    /\ \E ok \in BOOLEAN :
           LET r == QueueOne(SDB, enq.w[w].media[1], enq.queue, enq.history, ok)
           IN /\ SvcStore(r.s)
              /\ Disturb(IF ok THEN 0 ELSE 2)
              /\ enq' = [enq EXCEPT !.w[w] = IF r.pack THEN [@ EXCEPT !.pc = "mark"]
                                             ELSE IdleWorker]
    /\ UNCHANGED <<trakt, notifyChan, watchHistory, watchedCache, stage, cycles, cycleEnd>>

\* The worker marks the season as processed, under seasonMutex.
MarkSeason(w) ==
    /\ enq.w[w].pc = "mark"
    /\ enq' = [enq EXCEPT !.processedSeasons = @ \cup {SeasonKey(enq.w[w].media[1])},
                          !.w[w] = IdleWorker]
    /\ UNCHANGED <<trakt, smedia, snzb, nzbget, notifyChan, watchHistory, watchedCache, stage, cycles,
                   cycleEnd, disturbed>>
    /\ UNCHANGED <<ctlVars, auxVars>>

\* DownloadMedia as it would be if it returned without wg.Wait: the stage
\* ends as soon as the jobs were handed out.
FinishDownloadNoWait ==
    /\ enq.running
    /\ enq' = EnqIdle
    /\ stage' = "cleanup"
    /\ UNCHANGED <<trakt, smedia, snzb, nzbget, notifyChan, watchHistory, watchedCache,
                   cycles, cycleEnd, disturbed>>
    /\ UNCHANGED <<ctlVars, auxVars>>

\* wg.Wait returns.
FinishDownload ==
    /\ enq.running
    /\ enq.jobs = <<>>
    /\ \A w \in 1..numWorkers : enq.w[w].pc = "idle"
    /\ enq' = EnqIdle
    /\ stage' = "cleanup"
    /\ UNCHANGED <<trakt, smedia, snzb, nzbget, notifyChan, watchHistory, watchedCache, cycles, cycleEnd,
                   disturbed>>
    /\ UNCHANGED <<ctlVars, auxVars>>

\* NZBGet finishes a download of its queue and its post-processing script
\* posts the result to Handlers.Notify, which queues the notification.
NZBGetFinish ==
    \E d \in DOMAIN nzbget :
        \E status \in {"SUCCESS", "FAILURE"}, path \in {"", "/downloads"} :
            /\ nzbget[d].state = "queue"
            /\ status = "FAILURE" => path = ""
            /\ Len(notifyChan) < MaxNotify
            /\ nzbget' = [nzbget EXCEPT ![d].state = "history"]
            /\ notifyChan' = Append(notifyChan,
                   [status |-> status, name |-> nzbget[d].title, path |-> path,
                    downloadID |-> d, traktID |-> nzbget[d].traktID])
            /\ Disturb(1)
            /\ UNCHANGED <<trakt, smedia, snzb, watchHistory, watchedCache, stage, cycles, enq, cycleEnd>>
            /\ UNCHANGED <<ctlVars, auxVars>>

\* Handlers.processNotifications handles the next notification.
ProcessNotification ==
    /\ notifyChan # <<>>
    /\ \E ok \in BOOLEAN :
           /\ Head(notifyChan).status = "SUCCESS" => ok
           /\ SvcStore(HandleNotification(SDB, Head(notifyChan), ok))
    /\ notifyChan' = Tail(notifyChan)
    /\ Disturb(1)
    /\ UNCHANGED <<trakt, watchHistory, watchedCache, stage, cycles, enq, cycleEnd>>

\* The user watches a media that is on disk: the tracker's history grows.
\* Only Sync and Cleanup read the history, so it is enough to let it grow
\* right before either.
Watch ==
    \E t \in DOMAIN smedia :
        /\ stage \in {"sync", "cleanup"}
        /\ smedia[t].onDisk
        /\ t \notin watchHistory
        /\ watchHistory' = watchHistory \cup {t}
        /\ Disturb(1)
        /\ UNCHANGED <<trakt, smedia, snzb, nzbget, notifyChan, watchedCache, stage, cycles,
                       enq, cycleEnd>>
        /\ UNCHANGED <<ctlVars, auxVars>>

\* The user takes what the tracker lists off the lists, between two cycles.
Unlist ==
    /\ stage = "sync"
    /\ cycles >= 1
    /\ trakt.movies # <<>> \/ trakt.episodes # <<>>
    /\ trakt' = [movies |-> <<>>, episodes |-> <<>>]
    /\ Disturb(1)
    /\ UNCHANGED <<smedia, snzb, nzbget, notifyChan, watchHistory, watchedCache, stage,
                   cycles, enq, cycleEnd>>
    /\ UNCHANGED <<ctlVars, auxVars>>

InitSvc ==
    /\ call = NoCall
    /\ cancelled = FALSE
    /\ responses = <<>>
    /\ sweep = NoSweep
    /\ InitRuns
    /\ trakt \in SvcWorlds \cup {[movies |-> <<>>, episodes |-> <<>>]}
    /\ smedia = <<>>
    /\ snzb = <<>>
    /\ nzbget = <<>>
    /\ notifyChan = <<>>
    /\ watchHistory = {}
    /\ watchedCache = ClearWatchedCache
    /\ stage = "sync"
    /\ cycles = 0
    /\ enq = EnqIdle
    /\ cycleEnd = [prev |-> [media |-> <<>>, nzb |-> <<>>, get |-> <<>>],
                   last |-> [media |-> <<>>, nzb |-> <<>>, get |-> <<>>],
                   comparable |-> FALSE]
    /\ disturbed = 0

vars == <<ctlVars, svcVars, auxVars>>

\* The controllers generation runs; the services generation stays as built.
Init == InitCtl /\ InitSvc /\ trakt.movies = <<>> /\ trakt.episodes = <<>>

NextCtl ==
    \/ RunSync
    \/ RunSearch
    \/ Webhook
    \/ RunStuckDownloadCheck
    \/ Tick

SpecCtl == Init /\ [][NextCtl]_vars

\* The controllers generation while TorBox sends no notification, so that
\* only the stuck-download check retries, for a show whose season pack and
\* first episode the indexer holds.
InitRetry ==
    /\ medias = <<>> /\ nzbs = <<>> /\ seqM = 0 /\ seqN = 0
    /\ jobs = {} /\ nextJob = 1 /\ now = 0 /\ searches = 0
    /\ indexer = {"P1", "E1a", "E1b"}
    /\ tracker = Tracker({ShowIMDB}, {}, FALSE, {})
    /\ InitSvc /\ trakt.movies = <<>> /\ trakt.episodes = <<>>

NextRetry ==
    \/ RunSync
    \/ RunSearch
    \/ RunStuckDownloadCheck
    \/ Tick

SpecRetry == InitRetry /\ [][NextRetry]_vars

\* CheckStuckDownloads in two steps, as the job runs beside the webhook
\* handler with no lock: it reads the downloading NZBs and keeps the stuck
\* ones as read ...
StartStuckCheck ==
    LET rows == GetNZBsByStatus(DB, "downloading")
        stuck == SelectSeq(rows, LAMBDA id : now - nzbs[id].updatedAt > StuckTimeout)
    IN /\ sweep = NoSweep
       /\ stuck # <<>>
       /\ sweep' = [ids |-> stuck, snapshot |-> [id \in Range(stuck) |-> nzbs[id]]]
       /\ UNCHANGED <<ctlVars, svcVars, call, cancelled, responses, runVars>>

\* ... and then fails, deletes and retries each of them, writing the rows
\* it read.
FinishStuckCheck ==
    /\ sweep # NoSweep
    /\ \E answers \in [Range(sweep.ids) -> DownloadAnswers] :
           LET db == StuckLoop(DB, sweep.ids, sweep.snapshot, answers)
           IN WithinBounds(db) /\ Store(db)
    /\ sweep' = NoSweep
    /\ UNCHANGED <<now, indexer, tracker, searches>>
    /\ UNCHANGED <<svcVars, call, cancelled, responses, runVars>>

\* The controllers generation for a favorite movie with six releases, the
\* stuck-download check running beside the webhooks.
InitSweep ==
    /\ medias = <<>> /\ nzbs = <<>> /\ seqM = 0 /\ seqN = 0
    /\ jobs = {} /\ nextJob = 1 /\ now = 0 /\ searches = 0
    /\ indexer = {"M1", "M2", "M3", "M4", "M5", "M6"}
    /\ tracker = Tracker({MovieIMDB}, {}, FALSE, {})
    /\ InitSvc /\ trakt.movies = <<>> /\ trakt.episodes = <<>>

NextSweep ==
    \/ RunSync
    \/ RunSearch
    \/ Webhook
    \/ StartStuckCheck
    \/ FinishStuckCheck
    \/ Tick

SpecSweep == InitSweep /\ [][NextSweep]_vars

\* The controllers generation with the cleanup job and a user who watches
\* and unlists, at one instant of the clock and while TorBox sends no
\* notification.
CleanupWorlds ==
    { [indexer |-> {"P1", "E1a"},
       tracker |-> Tracker({ShowIMDB}, {}, FALSE, {})],
      [indexer |-> {"M1"},
       tracker |-> Tracker({}, {MovieIMDB}, FALSE, {})] }

InitCln ==
    /\ medias = <<>> /\ nzbs = <<>> /\ seqM = 0 /\ seqN = 0
    /\ jobs = {} /\ nextJob = 1 /\ now = 0 /\ searches = 0
    /\ \E w \in CleanupWorlds : indexer = w.indexer /\ tracker = w.tracker
    /\ InitSvc /\ trakt.movies = <<>> /\ trakt.episodes = <<>>

NextCln ==
    \/ RunSync
    \/ RunSearch
    \/ RunCleanupWatched
    \/ MarkWatched
    \/ RemoveFromList

SpecCln == InitCln /\ [][NextCln]_vars

(***************************************************************************)
(* Orchestrator.runTask: the status it reports for the error the task      *)
(* returned.  An error value is nil, context.DeadlineExceeded itself, an    *)
(* error that wraps it (fmt.Errorf with %w), or another error.             *)
(***************************************************************************)
TaskErrors == {"nil", "DeadlineExceeded", "wrapped DeadlineExceeded", "other"}

runTask(err) ==
    IF err = "nil" THEN "success"
    ELSE IF err = "DeadlineExceeded" THEN "timeout"
    ELSE "error"

\* What a task of runCycle returns once its context's deadline has passed:
\* the fetches of the syncs, of DownloadMedia and of CleanupWatched wrap the
\* error; searchAllNZBs returns GetNotOnDisk's error as it is; the workers of
\* the search and of DownloadMedia log the error and the task returns nil.
TaskReturns ==
    [sync_movies |-> {"wrapped DeadlineExceeded"},
     sync_episodes |-> {"wrapped DeadlineExceeded"},
     search_nzbs |-> {"DeadlineExceeded", "nil"},
     download_media |-> {"wrapped DeadlineExceeded", "nil"},
     cleanup_watched |-> {"wrapped DeadlineExceeded"}]

\* runTask runs one task: its timeout elapses or not.
RunTask ==
    /\ call = NoCall
    /\ \E task \in DOMAIN TaskReturns, elapsed \in BOOLEAN :
           \E err \in IF elapsed THEN TaskReturns[task] ELSE {"nil", "other"} :
               call' = [fn |-> "runTask", in |-> <<task, elapsed, err>>, out |-> runTask(err)]
    /\ UNCHANGED <<ctlVars, svcVars, cancelled, responses, sweep, runVars>>

(***************************************************************************)
(* Release titles for the queue check.  A title is its words (joined by    *)
(* "."), the group tag after its last dash ("" if none) and whether it     *)
(* ends with ".nzb".  No word of the vocabulary is part of another one,    *)
(* so that one title's text lies within another's exactly if its tokens    *)
(* are a run of the other's tokens.                                        *)
(***************************************************************************)
ToUpper ==
    [w \in {"Show", "show", "S01E01", "S01E02", "1080p", "720p", "WEB-DL", "HDTV", "x265"} |->
        CASE w \in {"Show", "show"} -> "SHOW"
          [] w = "1080p" -> "1080P"
          [] w = "720p" -> "720P"
          [] w = "x265" -> "X265"
          [] OTHER -> w]

\* The words the patterns of normalizeReleaseTitle remove, among words that
\* hold no dot: quality, codec, source, audio, HDR and flag indicators.
Indicators ==
    {"2160P", "1080P", "720P", "480P", "4K", "UHD", "HD", "SD",
     "H265", "H264", "X265", "X264", "HEVC", "AVC", "XVID",
     "WEB-DL", "WEBDL", "WEBRIP", "WEB", "BLURAY", "BLU-RAY", "BRRIP", "REMUX", "HDTV",
     "DVDRIP", "DVD", "ATMOS", "TRUEHD", "DTS", "AAC", "FLAC", "LPCM", "AC3",
     "HDR10", "HDR", "DV", "DOVI", "SDR", "10BIT", "HYBRID", "REPACK", "PROPER", "RERIP"}

ReleaseTitle(words, group, nzb) == [words |-> words, group |-> group, nzb |-> nzb]

ReleaseTitles ==
    {ReleaseTitle(w, g, x) :
        w \in {<<"Show", "S01E01", "1080p", "WEB-DL">>, <<"Show", "S01E01", "720p", "HDTV", "x265">>,
               <<"Show", "S01E01">>, <<"show", "S01E01", "1080p">>,
               <<"Show", "S01E02", "1080p", "WEB-DL">>},
        g \in {"", "-GRP", "-XYZ"}, x \in BOOLEAN}

\* The text of a title as its tokens.
TitleText(t) ==
    t.words \o (IF t.group = "" THEN <<>> ELSE <<t.group>>)
            \o (IF t.nzb THEN <<".nzb">> ELSE <<>>)

\* strings.Contains(a, b)
Contains(a, b) ==
    \E i \in 0..(Len(a) - Len(b)) : SubSeq(a, i + 1, i + Len(b)) = b

\* normalizeReleaseTitle: the extension trimmed, upper case, the indicators
\* removed, cut at the last dash, the dots collapsed and trimmed.
normalizeReleaseTitle(t) ==
    LET trimmed == [t EXCEPT !.nzb = FALSE]
        upper == [i \in DOMAIN trimmed.words |-> ToUpper[trimmed.words[i]]]
        removed == SelectSeq(upper, LAMBDA w : w \notin Indicators)
        \* the group tag follows the last dash; a word is left before it
        cut == removed
    IN cut

\* isInQueue of download.go: one title holds the other.
isInQueueContains(title, queue) ==
    \E item \in queue :
        Contains(TitleText(item), TitleText(title)) \/ Contains(TitleText(title), TitleText(item))

\* isInQueue of the variant with normalizeReleaseTitle.
isInQueueNormalized(title, queue) ==
    \E item \in queue : normalizeReleaseTitle(title) = normalizeReleaseTitle(item)

\* DownloadMedia asks whether the release it picked is in NZBGet's queue.
IsInQueue ==
    /\ call = NoCall
    /\ \E title \in ReleaseTitles, item \in ReleaseTitles, variant \in {"contains", "normalized"} :
           call' = [fn |-> "isInQueue", in |-> <<variant, title, item>>,
                    out |-> IF variant = "contains" THEN isInQueueContains(title, {item})
                            ELSE isInQueueNormalized(title, {item})]
    /\ UNCHANGED <<ctlVars, svcVars, cancelled, responses, sweep, runVars>>

(***************************************************************************)
(* The scorer.  ParsedInfo as parser.Parse fills it: the normalized        *)
(* resolution, source and codec ("" for none), the flags, year, season     *)
(* and episode.                                                            *)
(***************************************************************************)
Sources == {"REMUX", "BLURAY", "WEB-DL", "HDTV", "DVD", ""}
Resolutions == {"2160P", "1080P", "720P", "480P", ""}
Codecs == {"X265", "X264", "XVID", ""}

resolutionScore(resolution) ==
    CASE resolution = "2160P" -> 30
      [] resolution = "1080P" -> 25
      [] resolution = "720P" -> 15
      [] resolution = "480P" -> 5
      [] OTHER -> 0

sourceScore(source) ==
    CASE source = "REMUX" -> 60
      [] source = "BLURAY" -> 35
      [] source = "WEB-DL" -> 25
      [] source = "HDTV" -> 15
      [] source = "DVD" -> 10
      [] OTHER -> 0

codecScore(codec) ==
    CASE codec = "X265" -> 15
      [] codec = "X264" -> 12
      [] codec = "XVID" -> 5
      [] OTHER -> 0

QualityScore(parsed) ==
    sourceScore(parsed.source) + resolutionScore(parsed.resolution) + codecScore(parsed.codec)
    + (IF parsed.isProper \/ parsed.isRepack THEN 5 ELSE 0)

calculateYearScore(mediaYear, parsedYear) ==
    LET diff == IF mediaYear - parsedYear < 0 THEN parsedYear - mediaYear
                ELSE mediaYear - parsedYear
    IN IF parsedYear = 0 THEN 0
       ELSE CASE diff = 0 -> 30
              [] diff = 1 -> 20
              [] diff = 2 -> 10
              [] OTHER -> 0

\* ValidationScore, where the two normalized titles are distance apart
\* (Levenshtein) and the longer one has maxLen characters: the similarity is
\* 1 - distance / maxLen, and math.Round rounds the sum half away from zero.
ValidationScore(media, parsed, distance, maxLen) ==
    LET points == calculateYearScore(media.year, parsed.year)
                  + (IF media.season > 0 /\ media.number > 0
                     THEN (IF parsed.season = media.season
                           THEN 10 + (IF parsed.episode = 0 THEN 10 ELSE 0) ELSE 0)
                          + (IF parsed.episode = media.number THEN 10 ELSE 0)
                     ELSE 0)
    IN (2 * 50 * (maxLen - distance) + 2 * points * maxLen + maxLen) \div (2 * maxLen)

\* The scorer rates the quality of a parsed release.
ScoreQuality ==
    /\ call = NoCall
    /\ \E parsed \in [source : Sources, resolution : Resolutions, codec : Codecs,
                       isProper : BOOLEAN, isRepack : BOOLEAN] :
           call' = [fn |-> "QualityScore", in |-> <<parsed>>, out |-> QualityScore(parsed)]
    /\ UNCHANGED <<ctlVars, svcVars, cancelled, responses, sweep, runVars>>

\* The scorer rates how well a parsed release matches a media of 2020: the
\* movie, or the first episode of the first season.
ScoreValidation ==
    /\ call = NoCall
    /\ \E media \in {[year |-> 2020, season |-> 0, number |-> 0],
                      [year |-> 2020, season |-> 1, number |-> 1]},
          parsed \in [year : {0} \cup 2017..2021, season : 0..2, episode : 0..2],
          maxLen \in 1..MaxTitleLen :
           \E distance \in 0..maxLen :
               call' = [fn |-> "ValidationScore", in |-> <<media, parsed, distance, maxLen>>,
                        out |-> ValidationScore(media, parsed, distance, maxLen)]
    /\ UNCHANGED <<ctlVars, svcVars, cancelled, responses, sweep, runVars>>

\* The services generation runs; the controllers generation stays as built,
\* with nothing upstream.
InitServices ==
    /\ InitSvc
    /\ trakt \in SvcWorlds
    /\ medias = <<>> /\ nzbs = <<>> /\ seqM = 0 /\ seqN = 0
    /\ jobs = {} /\ nextJob = 1 /\ now = 0 /\ searches = 0
    /\ indexer = {} /\ tracker = Tracker({}, {}, FALSE, {})

External ==
    \/ NZBGetFinish
    \/ ProcessNotification
    \/ Watch
    \/ Unlist

(***************************************************************************)
(* The season and episode of a release title.  What matters of a title is  *)
(* the notation it holds: "SxxEyy" (Show.S01E02), "Sxx" (Show.S01.1080p),  *)
(* "Season xx" (Show.Season.1), or none (a movie), with its numbers.       *)
(***************************************************************************)
Notations ==
    {[form |-> "SxxEyy", season |-> sn, episode |-> e] : sn \in 0..2, e \in 0..2}
    \cup {[form |-> f, season |-> sn, episode |-> 0] : f \in {"Sxx", "Season xx"}, sn \in 0..2}
    \cup {[form |-> "none", season |-> 0, episode |-> 0]}

\* newznab.parseSeasonEpisode: (*season, *episode, isSeasonPack), a nil
\* pointer being the empty sequence.
parseSeasonEpisode(title) ==
    IF title.form = "SxxEyy"
    THEN [season |-> <<title.season>>, episode |-> <<title.episode>>, isSeasonPack |-> FALSE]
    ELSE IF title.form = "Sxx"
    THEN [season |-> <<title.season>>, episode |-> <<>>, isSeasonPack |-> TRUE]
    ELSE [season |-> <<>>, episode |-> <<>>, isSeasonPack |-> FALSE]

\* parser.Parse, the season and the episode: seasonEpRegex, else seasonRegex.
ParseSeasonEpisode(title) ==
    IF title.form = "SxxEyy"
    THEN [season |-> title.season, episode |-> title.episode]
    ELSE IF title.form = "Season xx"
    THEN [season |-> title.season, episode |-> 0]
    ELSE [season |-> 0, episode |-> 0]

\* convertResults parses the title of a search result.
ConvertResult ==
    /\ call = NoCall
    /\ \E title \in Notations :
           call' = [fn |-> "parseSeasonEpisode", in |-> <<title>>,
                    out |-> parseSeasonEpisode(title)]
    /\ UNCHANGED <<ctlVars, svcVars, cancelled, responses, sweep, runVars>>

\* ValidateAndScore parses the title of a search result into the NZB it
\* stores; NZB.IsSeasonPack derives the flag.
ParseResult ==
    /\ call = NoCall
    /\ \E title \in Notations :
           LET parsed == ParseSeasonEpisode(title)
           IN call' = [fn |-> "Parse", in |-> <<title>>,
                       out |-> [season |-> parsed.season, episode |-> parsed.episode,
                                isSeasonPack |-> IsSeasonPack(parsed)]]
    /\ UNCHANGED <<ctlVars, svcVars, cancelled, responses, sweep, runVars>>

\* One of the functions of the program is applied, once, to an input of its
\* own.
NextFn ==
    \/ RunTask
    \/ IsInQueue
    \/ ScoreQuality
    \/ ScoreValidation
    \/ ConvertResult
    \/ ParseResult

SpecFn == InitServices /\ [][NextFn]_vars

\* The orchestrator with the sequential DownloadMedia.
NextSeq ==
    \/ Sync
    \/ Search
    \/ Download
    \/ Cleanup
    \/ External

SpecSeq == InitServices /\ [][NextSeq]_vars

\* The error NotificationService.HandleWebhook returns: the error of
\* mediaRepo.FindByTraktID, or that of QueueNZB for the alternative release.
HandleWebhookErr(s, n, ok) ==
    IF n.traktID \notin DOMAIN s.media THEN "repository"
    ELSE IF n.status = "SUCCESS" THEN "nil"
    ELSE LET marked == MarkAsFailedByTitle(s, n.name)
             id == FindBestByTraktID(marked, n.traktID)
         IN IF id # 0 /\ QueueNZB(marked, marked.media[n.traktID], marked.nzb[id],
                                  "retry", ok).err
            THEN "queue" ELSE "nil"

\* Handlers.Notify, whole: NZBGet's post-processing script posts the result
\* of a download; the notification is sent to notifyChan and answered with
\* 200, or, the channel being full (MaxNotify stands for its capacity), it
\* is handled in the request and answered with 500 if that fails.
Notify ==
    \E d \in DOMAIN nzbget :
        \E status \in {"SUCCESS", "FAILURE"}, path \in {"", "/downloads"}, ok \in BOOLEAN :
            LET n == [status |-> status, name |-> nzbget[d].title, path |-> path,
                      downloadID |-> d, traktID |-> nzbget[d].traktID]
                posted == [SDB EXCEPT !.get[d].state = "history"]
                handled == HandleNotification(posted, n, ok)
            IN /\ nzbget[d].state = "queue"
               /\ status = "FAILURE" => path = ""
               /\ IF Len(notifyChan) < MaxNotify
                  THEN /\ ok
                       /\ notifyChan' = Append(notifyChan, n)
                       /\ nzbget' = posted.get
                       /\ responses' = (d :> 200) @@ responses
                       /\ UNCHANGED <<smedia, snzb>>
                  ELSE /\ status = "SUCCESS" => ok
                       /\ SvcWithinBounds(handled)
                       /\ smedia' = handled.media
                       /\ snzb' = handled.nzb
                       /\ nzbget' = handled.get
                       /\ responses' = (d :> IF HandleWebhookErr(posted, n, ok) = "nil"
                                             THEN 200 ELSE 500) @@ responses
                       /\ UNCHANGED notifyChan
               /\ Disturb(1)
               /\ UNCHANGED <<trakt, watchHistory, watchedCache, stage, cycles, enq, cycleEnd>>
               /\ UNCHANGED <<ctlVars, call, cancelled, sweep, runVars>>

\* The orchestrator with the sequential DownloadMedia and the whole of
\* Handlers.Notify.
NextNotify ==
    \/ Sync
    \/ Search
    \/ Download
    \/ Cleanup
    \/ Notify
    \/ ProcessNotification
    \/ Watch
    \/ Unlist

SpecNotify == InitServices /\ [][NextNotify]_vars

\* The orchestrator with the concurrent DownloadMedia.
NextSvc ==
    \/ Sync
    \/ Search
    \/ StartDownload
    \/ \E w \in 1..numWorkers : Receive(w) \/ CheckSeason(w) \/ Queue(w) \/ MarkSeason(w)
    \/ FinishDownload
    \/ Cleanup
    \/ External

SpecSvc == InitServices /\ [][NextSvc]_vars

\* The root context is cancelled (SIGINT or SIGTERM) while DownloadMedia's
\* workers run.
Cancel ==
    /\ ~cancelled
    /\ stage = "download"
    /\ enq.running
    /\ cancelled' = TRUE
    /\ UNCHANGED <<ctlVars, svcVars, call, responses, sweep, runVars>>

\* The worker's repository call under the cancelled context: FindBestByTraktID
\* returns the context's error and the worker continues with the next job.
QueueCancelled(w) ==
    /\ cancelled
    /\ enq.w[w].pc = "queue"
    /\ enq' = [enq EXCEPT !.w[w] = IdleWorker]
    /\ UNCHANGED <<trakt, smedia, snzb, nzbget, notifyChan, watchHistory, watchedCache, stage, cycles,
                   cycleEnd, disturbed>>
    /\ UNCHANGED <<ctlVars, auxVars>>

\* The first cycle of the services generation with a cancellation during
\* the enqueue stage: `for media := range jobs` has no case for ctx.Done().
NextCancel ==
    \/ ~cancelled /\ cycles = 0 /\ NextSvc
    \/ Cancel
    \/ cancelled /\ \E w \in 1..numWorkers : Receive(w) \/ CheckSeason(w) \/ QueueCancelled(w)
    \/ cancelled /\ FinishDownload

SpecCancel == InitServices /\ [][NextCancel]_vars

(***************************************************************************)
(* Properties of the controllers generation.                               *)
(***************************************************************************)
NZBsOf(mediaID) == {id \in DOMAIN nzbs : nzbs[id].mediaID = mediaID}

\* The NZBs of a media that are selected or being downloaded.
ActiveNZBs(mediaID) ==
    {id \in NZBsOf(mediaID) : nzbs[id].status \in {"selected", "downloading"}}

\* The NZBs of a media that DownloadNZB was called for: it either failed to
\* submit them or stamped them with the hash of the download it created.
Attempted(mediaID) ==
    {id \in NZBsOf(mediaID) : nzbs[id].hash # "" \/ nzbs[id].reason = "submit"}

\* The NZBs of a media that a "failed" webhook marked failed (HandleWebhook
\* records the empty error message of the by-name and by-hash handlers).
FailedByWebhook(mediaID) ==
    {id \in NZBsOf(mediaID) : nzbs[id].status = "failed" /\ nzbs[id].reason = ""}

\* C1: every media has at most one NZB whose status is selected or
\* downloading, whatever search, enqueue, webhook retry and stuck sweep did.
C1_AtMostOneActiveNZB ==
    \A m \in DOMAIN medias : Cardinality(ActiveNZBs(m)) <= 1

\* What a webhook may change: the NZBs' status and retry count, the medias'
\* status, and the downloads submitted to TorBox so far.
Observed(db) ==
    [nzb |-> [id \in DOMAIN db.n |-> <<db.n[id].status, db.n[id].retry>>],
     media |-> [id \in DOMAIN db.m |-> db.m[id].status],
     submitted |-> db.nextJob]

\* The handler's result for one notification.
Notified(db, by, name, hash, status, answer) ==
    IF by = "name"
    THEN HandleWebhookByName(db, name, status, answer)
    ELSE HandleWebhookByHash(db, hash, status, answer)

\* C3: delivering the same webhook (same match key, same status) a second
\* time changes nothing: NZB status and retry count, media status and the
\* submitted downloads are as the first delivery left them.
C3_WebhookTwiceIsNoOp ==
    \A job \in jobs, by \in {"name", "hash"},
       status \in {"completed", "failed", "unknown"} :
        \A a1 \in DownloadAnswers, a2 \in DownloadAnswers :
            LET id == GetNZBByTorBoxJobID(DB, job)
                first == Notified(DB, by, nzbs[id].title, nzbs[id].hash, status, a1)
                second == Notified(first.db, by, nzbs[id].title, nzbs[id].hash, status, a2)
            IN (id # 0 /\ ~first.err) => Observed(second.db) = Observed(first.db)

\* C6: the step in which the fifth NZB of a media is failed by a "failed"
\* webhook leaves the media failed, with no NZB selected or downloading.
C6_FifthFailureFailsMedia ==
    [][\A m \in DOMAIN medias :
          (/\ Cardinality(FailedByWebhook(m)) = maxRetries - 1
           /\ m \in DOMAIN medias'
           /\ Cardinality(FailedByWebhook(m)') = maxRetries)
          => (medias'[m].status = "failed" /\ ActiveNZBs(m)' = {})]_vars

\* C7: a media is failed only when at least max_retries of its candidates
\* went through a download attempt.
C7_FailedOnlyAfterMaxRetries ==
    \A m \in DOMAIN medias :
        medias[m].status = "failed" => Cardinality(Attempted(m)) >= maxRetries

C2_SecondCycleNoSideEffects ==
    cycleEnd.comparable => cycleEnd.last = cycleEnd.prev

\* C4: every download that DownloadMedia queues at NZBGet is for a media
\* whose row has download_id 0 when it is queued: a media that has a
\* download_id greater than 0 is not queued again.
C4_NeverEnqueuedAgain ==
    [][\A d \in (DOMAIN nzbget') \ DOMAIN nzbget :
          (nzbget'[d].by = "enqueue" /\ nzbget'[d].traktID \in DOMAIN smedia)
          => smedia[nzbget'[d].traktID].downloadID = 0]_vars

\* The download is one of a season pack.
OfSeasonPack(d) ==
    \E id \in DOMAIN snzb : snzb[id].title = nzbget[d].title /\ IsSeasonPack(snzb[id])

\* The downloads the running DownloadMedia has queued.
QueuedThisStage ==
    {d \in DOMAIN nzbget : enq.running /\ d >= enq.first /\ nzbget[d].by = "enqueue"}

\* C5: once the running DownloadMedia has queued a season pack for an
\* episode, it queues nothing for another episode of the same season.
C5_OnePackPerSeason ==
    \A i \in QueuedThisStage, j \in QueuedThisStage :
        (/\ i < j
         /\ OfSeasonPack(i)
         /\ nzbget[i].traktID # nzbget[j].traktID
         /\ {nzbget[i].traktID, nzbget[j].traktID} \subseteq DOMAIN smedia)
        => SeasonKey(smedia[nzbget[i].traktID]) # SeasonKey(smedia[nzbget[j].traktID])

\* C8: the sync task leaves every media that is on disk as it found it.
C8_SyncKeepsCompleted ==
    [][(stage = "sync" /\ stage' = "search")
       => \A t \in DOMAIN smedia :
              smedia[t].onDisk => (t \in DOMAIN smedia' /\ smedia'[t] = smedia[t])]_vars

\* C9: a media that is on disk has a path.
C9_OnDiskHasPath ==
    \A t \in DOMAIN smedia : smedia[t].onDisk => smedia[t].path # ""

\* C11: a sync pass in which the fetch of a list fails deletes no media row:
\* whatever the tables hold when a cycle starts, the pass with the movie
\* lists or the show lists failing leaves every media row in its table.
C11_NoDeletionWhenAListFails ==
    stage = "sync"
    => \A okM \in BOOLEAN, okE \in BOOLEAN :
           (~okM \/ ~okE)
           => DOMAIN smedia \subseteq
                  DOMAIN SyncPass(SDB, watchedCache, trakt, watchHistory,
                                  okM, okE, TRUE).s.media

C13_CachedCompletesMedia ==
    [][\A id \in DOMAIN nzbs \cap DOMAIN nzbs' :
          (/\ nzbs[id].jobID = 0
           /\ nzbs'[id].status = "completed"
           /\ nzbs[id].mediaID \in DOMAIN medias'
           /\ ActiveNZBs(nzbs[id].mediaID)' = {})
          => medias'[nzbs[id].mediaID].status = "completed"]_vars

\* C14: a webhook whose status is unknown, for a download the database
\* knows, leaves every NZB row and every media row as it was, the time of
\* the last update included.
C14_UnknownWebhookChangesNothing ==
    \A job \in jobs, by \in {"name", "hash"} :
        LET id == GetNZBByTorBoxJobID(DB, job)
            r == Notified(DB, by, nzbs[id].title, nzbs[id].hash, "unknown", "queued")
        IN (id # 0 /\ ~r.err) => (r.db.n = nzbs /\ r.db.m = medias)

\* The NZBs the stuck-download sweep is about: downloading, and last updated
\* longer ago than the timeout.
Stuck == {id \in DOMAIN nzbs : nzbs[id].status = "downloading"
                                /\ now - nzbs[id].updatedAt > StuckTimeout}

Candidates(mediaID) == {id \in NZBsOf(mediaID) : nzbs[id].status = "candidate"}

C16_RetryTakesBestCandidate ==
    [][\A id \in DOMAIN nzbs \cap DOMAIN nzbs' :
          (nzbs[id].status = "candidate" /\ nzbs'[id].status # "candidate")
          => \A o \in Candidates(nzbs[id].mediaID)' :
                 o \in DOMAIN nzbs => ~RanksBefore(nzbs[o], nzbs[id])]_vars

\* C17: the watched cleanup, run on the watch history the tracker reports,
\* deletes a season pack of a listed show together with its media when the
\* history holds the final episode of the pack's season; otherwise it deletes
\* neither and only adds the watched episodes of that season to the pack's
\* watched flags.
C17_PackDeletedAtFinalEpisode ==
    LET r == runCleanupWatched(DB, tracker, TRUE)
        FinalEpisode == SeasonEpisodes[Len(SeasonEpisodes)]
        ListedPacks == {id \in DOMAIN nzbs : /\ nzbs[id].pack
                                             /\ nzbs[id].mediaID \in DOMAIN medias
                                             /\ medias[nzbs[id].mediaID].imdb = ShowIMDB
                                             /\ medias[nzbs[id].mediaID].inTrakt}
    IN \A id \in ListedPacks :
           IF FinalEpisode \in tracker.episodes
           THEN id \notin DOMAIN r.n /\ nzbs[id].mediaID \notin DOMAIN r.m
           ELSE /\ id \in DOMAIN r.n
                /\ nzbs[id].mediaID \in DOMAIN r.m
                /\ [r.n[id] EXCEPT !.updatedAt = 0]
                     = [nzbs[id] EXCEPT !.updatedAt = 0,
                                        !.watched = @ \cup (tracker.episodes \cap Range(SeasonEpisodes))]

C19_CacheClearedAfterDeletion ==
    [][(DOMAIN smedia \ DOMAIN smedia') # {} => watchedCache' = ClearWatchedCache]_vars

C21_FailedEnqueueKeepsStatus ==
    [][\A id \in DOMAIN nzbs \cap DOMAIN nzbs' :
          (nzbs'[id].reason = "submit" /\ nzbs[id].reason # "submit")
          => (nzbs'[id].status = nzbs[id].status /\ nzbs'[id].jobID = nzbs[id].jobID)]_vars

\* C22: a task that ends because its timeout elapsed is reported with the
\* status timeout, whatever error it returns.
C22_ElapsedTimeoutIsReportedAsTimeout ==
    (call.fn = "runTask" /\ call.in[2]) => call.out = "timeout"


\* C23: once the root context is cancelled, no worker of the enqueue stage
\* takes a further job from the jobs channel into processing.
C23_NoJobProcessedAfterCancel ==
    [][cancelled => \A w \in 1..numWorkers :
                       enq.w[w].pc = "idle" => enq'.w[w].pc = "idle"]_vars

\* C24: a webhook accepted while earlier ones wait in the queue is queued
\* behind them: it is not handled before they are.
C24_WebhooksHandledInArrivalOrder ==
    [][(DOMAIN responses' # DOMAIN responses /\ notifyChan # <<>>)
       => (Len(notifyChan') = Len(notifyChan) + 1
           /\ SubSeq(notifyChan', 1, Len(notifyChan)) = notifyChan)]_vars

\* C25: a webhook whose handling fails with a repository error was answered
\* with a 5xx status.
C25_RepositoryErrorAnswered5xx ==
    [][(notifyChan # <<>> /\ notifyChan' = Tail(notifyChan)
        /\ HandleWebhookErr(SDB, Head(notifyChan), TRUE) = "repository")
       => responses[Head(notifyChan).downloadID] >= 500]_vars

\* C26: the queue check answers that a release is in the queue exactly when
\* its normalized title is that of a queued item.
C26_InQueueIffNormalizationsEqual ==
    call.fn = "isInQueue"
    => (call.out <=> normalizeReleaseTitle(call.in[2]) = normalizeReleaseTitle(call.in[3]))

\* C28: the validation score and the quality score the scorer returns lie
\* between 0 and 100.
C28_ScoresWithin0And100 ==
    call.fn \in {"QualityScore", "ValidationScore"} => call.out \in 0..100

\* C29: a parsed release is flagged as a season pack exactly when a season
\* above 0 and no episode were parsed, and a release of one episode or of a
\* movie is never flagged.
C29_SeasonPackFlagMatchesParse ==
    /\ call.fn = "parseSeasonEpisode"
       => /\ call.out.isSeasonPack
             <=> (call.out.season # <<>> /\ call.out.season[1] > 0 /\ call.out.episode = <<>>)
          /\ call.in[1].form \in {"SxxEyy", "none"} => ~call.out.isSeasonPack
    /\ call.fn = "Parse"
       => /\ call.out.isSeasonPack <=> (call.out.season > 0 /\ call.out.episode = 0)
          /\ call.in[1].form \in {"SxxEyy", "none"} => ~call.out.isSeasonPack

\* C27: an NZB whose status is downloading holds the id of the job TorBox
\* created for it, after the first submission, after a retry with the next
\* candidate, and after a restart of any job.
C27_DownloadingNZBHasHandle ==
    /\ \A id \in DOMAIN nzbs : nzbs[id].status = "downloading" => nzbs[id].jobID # 0
    /\ \A jobID \in 1..(nextJob - 1), answer \in DownloadAnswers :
           LET restarted == RestartDownload(DB, jobID, answer).db
           IN \A id \in DOMAIN restarted.n :
                  restarted.n[id].status = "downloading" => restarted.n[id].jobID # 0

\* The stuck-download check failed an NZB and the retry submitted the next
\* candidate, which is downloading under its job.
C27_DownloadingAfterSweepRetry ==
    \E id \in DOMAIN nzbs, old \in DOMAIN nzbs :
        /\ nzbs[id].status = "downloading" /\ nzbs[id].jobID \in jobs
        /\ nzbs[old].mediaID = nzbs[id].mediaID
        /\ nzbs[old].status = "failed" /\ nzbs[old].reason = "timeout"

\* C30: the stuck-download check leaves an NZB that is completed as it is:
\* it does not mark it failed, does not delete its job at TorBox and does
\* not submit another release of its media in its place.
C30_SweepSparesCompletedNZB ==
    [][(sweep # NoSweep /\ sweep' = NoSweep)
       => \A id \in DOMAIN nzbs :
              nzbs[id].status = "completed"
              => /\ nzbs'[id].status = "completed"
                 /\ nzbs[id].jobID \in jobs => nzbs[id].jobID \in jobs'
                 /\ \A o \in DOMAIN nzbs' :
                        (nzbs'[o].mediaID = nzbs[id].mediaID
                         /\ nzbs'[o].status = "downloading")
                        => (o \in DOMAIN nzbs /\ nzbs[o].status = "downloading")]_vars

\* C32: when a failed webhook leads to a retry that submits the next
\* candidate, the media ends with the status the submission wrote
\* (downloading, or completed when TorBox had the release cached).
C32_RetryMediaStatusKept ==
    \A job \in jobs, answer \in DownloadAnswers :
        LET id == GetNZBByTorBoxJobID(DB, job)
            nzb == nzbs[id]
            deleted == IF nzb.jobID # 0 THEN DeleteJob(DB, nzb.jobID) ELSE DB
            retried == RetryWithNextCandidate(deleted, nzb.mediaID, answer)
            handled == HandleWebhook(DB, job, "failed", answer)
        IN (/\ id # 0
            /\ nzb.mediaID \in DOMAIN medias
            /\ nzb.retry + 1 < maxRetries
            /\ ~retried.err)
           => handled.db.m[nzb.mediaID].status = retried.db.m[nzb.mediaID].status

\* C34: a run of the search job leaves no media in status searching.
C34_SearchRunLeavesNoneSearching ==
    [][searches' = searches + 1
       => \A m \in DOMAIN medias' : medias'[m].status # "searching"]_vars

(***************************************************************************)
(* Two runs of Scheduler.runSearch side by side: Start launches one in a   *)
(* goroutine of its own after cron was started, and cron launches one for  *)
(* every firing of the job "search"; neither takes a lock.  A run reads    *)
(* the pending medias once and then takes them up one after the other.     *)
(***************************************************************************)
\* runSearch up to its loop: GetPendingMedias.
StartSearch(r) ==
    LET pending == GetPendingMedias(DB)
    IN /\ runs[r] = NoRun
       /\ pending # <<>>
       /\ searches < MaxSearches
       /\ Ran("search")
       /\ runs' = [runs EXCEPT ![r] = [todo |-> pending,
                                       rows |-> [id \in Range(pending) |-> medias[id]],
                                       current |-> 0]]
       /\ UNCHANGED <<medias, nzbs, seqM, seqN, jobs, nextJob, now, indexer, tracker>>
       /\ UNCHANGED <<svcVars, call, cancelled, responses, sweep>>
       /\ UNCHANGED <<readers, cacheMu, fetches, token, stack, requests>>

\* The head of the loop's body: the media the run read is written back as
\* searching.
BeginMedia(r) ==
    /\ runs[r].todo # <<>>
    /\ runs[r].current = 0
    /\ LET m == Head(runs[r].todo)
       IN /\ Store(UpdateMedia(DB, m, [runs[r].rows[m] EXCEPT !.status = "searching"]))
          /\ runs' = [runs EXCEPT ![r].todo = Tail(@), ![r].current = m]
    /\ UNCHANGED <<now, indexer, tracker, searches>>
    /\ UNCHANGED <<svcVars, call, cancelled, responses, sweep>>
    /\ UNCHANGED <<readers, cacheMu, fetches, token, stack, requests>>

\* The struct of the media in hand: what the run read, written as searching.
InHand(r) == [runs[r].rows[runs[r].current] EXCEPT !.status = "searching"]

StoreRun(db) == WithinBounds(db) /\ Store(db)

\* The rest of the loop's body for the media in hand: strategy, search,
\* downloads, all on the struct the run read.
FinishMedia(r) ==
    /\ runs[r].current # 0
    /\ \E inputs \in [{runs[r].current} -> SearchInputs] :
           /\ inputs[runs[r].current] \in SearchInputsFor(InHand(r))
           /\ StoreRun(SearchOne(UpdateMedia(DB, runs[r].current, InHand(r)),
                                 runs[r].current, inputs[runs[r].current]))
    /\ runs' = [runs EXCEPT ![r] = IF runs[r].todo = <<>> THEN NoRun
                                   ELSE [@ EXCEPT !.current = 0]]
    /\ UNCHANGED <<now, indexer, tracker, searches>>
    /\ UNCHANGED <<svcVars, call, cancelled, responses, sweep>>
    /\ UNCHANGED <<readers, cacheMu, fetches, token, stack, requests>>

InitSearches ==
    /\ medias = <<>> /\ nzbs = <<>> /\ seqM = 0 /\ seqN = 0
    /\ jobs = {} /\ nextJob = 1 /\ now = 0 /\ searches = 0
    /\ indexer = {"M1", "M2"}
    /\ tracker \in {Tracker({MovieIMDB}, {}, FALSE, {}),
                    Tracker({}, {MovieIMDB}, FALSE, {})}
    /\ InitSvc /\ trakt.movies = <<>> /\ trakt.episodes = <<>>

NextSearches ==
    \/ RunSync
    \/ \E r \in Runs : StartSearch(r)
    \/ \E r \in Runs : BeginMedia(r)
    \/ \E r \in Runs : FinishMedia(r)

SpecSearches == InitSearches /\ [][NextSearches]_vars

\* C37: no media is in the hands of two runs of the search job at once.
C37_NoMediaInTwoRuns ==
    \A m \in DOMAIN medias :
        ~(runs["initial"].current = m /\ runs["cron"].current = m)

(***************************************************************************)
(* internal/services/trakt (auth.go, client.go): the token and the calls   *)
(* of the client.  A call is a frame [fn, path, pc] on the stack: pc is    *)
(* "enter" until the function has called another one, and then what that   *)
(* one returned ("ok" for nil, "err" for an error).                        *)
(***************************************************************************)
\* The paths the client asks for: the poll of Authenticate and a list.
Paths == {"/oauth/device/token", "/sync/watchlist"}

Frame(fn, path) == [fn |-> fn, path |-> path, pc |-> "enter"]

\* The function on top of the stack calls another one.
CallFn(st, frame) == [st EXCEPT !.stack = Append(@, frame)]

\* The function on top of the stack returns res to its caller.
ReturnFn(st, res) ==
    LET rest == SubSeq(st.stack, 1, Len(st.stack) - 1)
    IN [st EXCEPT !.stack = IF rest = <<>> THEN rest
                            ELSE [rest EXCEPT ![Len(rest)].pc = res]]

\* Client.ensureValidToken: no token is no error; a token with less than 24
\* hours left is refreshed, and the refresh's result is the result.
ensureValidToken(st) ==
    LET top == st.stack[Len(st.stack)]
    IN IF top.pc # "enter" THEN ReturnFn(st, top.pc)
       ELSE IF ~st.token.present THEN ReturnFn(st, "ok")
       ELSE IF st.token.left < RefreshBefore
       THEN CallFn(st, Frame("RefreshToken", top.path))
       ELSE ReturnFn(st, "ok")

\* Client.RefreshToken: the request goes through doRequest; its answer
\* becomes the stored token, valid for hours.
RefreshToken(st, hours) ==
    LET top == st.stack[Len(st.stack)]
    IN IF top.pc = "enter"
       THEN IF ~st.token.present THEN ReturnFn(st, "err")
            ELSE CallFn(st, Frame("doRequest", "/oauth/token"))
       ELSE IF top.pc = "err" THEN ReturnFn(st, "err")
       ELSE ReturnFn([st EXCEPT !.token = [present |-> TRUE, left |-> hours]], "ok")

\* Client.doRequest: ensureValidToken first; then the request is sent and
\* answered (ok) or not.  The answer to Authenticate's poll is saved as the
\* token by Authenticate.
doRequest(st, ok, hours) ==
    LET top == st.stack[Len(st.stack)]
        asked == [st EXCEPT !.requests = Append(@, top.path)]
    IN IF top.pc = "enter" THEN CallFn(st, Frame("ensureValidToken", top.path))
       ELSE IF top.pc = "err" THEN ReturnFn(st, "err")
       ELSE IF ~ok THEN ReturnFn(asked, "err")
       ELSE IF Len(st.stack) = 1 /\ top.path = "/oauth/device/token"
       THEN ReturnFn([asked EXCEPT !.token = [present |-> TRUE, left |-> hours]], "ok")
       ELSE ReturnFn(asked, "ok")

Advance(st, ok, hours) ==
    LET fn == st.stack[Len(st.stack)].fn
    IN IF fn = "doRequest" THEN doRequest(st, ok, hours)
       ELSE IF fn = "ensureValidToken" THEN ensureValidToken(st)
       ELSE RefreshToken(st, hours)

Client == [stack |-> stack, token |-> token, requests |-> requests]

StoreClient(st) ==
    /\ Len(st.stack) <= MaxDepth
    /\ Len(st.requests) <= MaxRequests
    /\ stack' = st.stack
    /\ token' = st.token
    /\ requests' = st.requests
    /\ UNCHANGED <<ctlVars, svcVars, call, cancelled, responses, sweep>>
    /\ UNCHANGED <<runs, readers, cacheMu, fetches>>

\* A caller of the client asks for a path.
ApiCall ==
    /\ stack = <<>>
    /\ \E path \in Paths : StoreClient(CallFn(Client, Frame("doRequest", path)))

\* The function on top of the stack runs up to its next call or its return.
ClientStep ==
    /\ stack # <<>>
    /\ \E ok \in BOOLEAN, hours \in {RefreshBefore - 12, MaxHours} :
           StoreClient(Advance(Client, ok, hours))

\* Twelve hours pass.
Elapse ==
    /\ stack = <<>>
    /\ token.present
    /\ token.left >= 12
    /\ StoreClient([Client EXCEPT !.token.left = @ - 12])

NextToken == ApiCall \/ ClientStep \/ Elapse

SpecToken == InitSweep /\ [][NextToken]_vars

\* C36: a refresh does not re-enter the refresh path: at no time are two
\* calls of RefreshToken unreturned.
C36_RefreshNotReentered ==
    Cardinality({i \in 1..Len(stack) : stack[i].fn = "RefreshToken"}) <= 1

\* C39: a watched cache is only populated with the watched history the
\* tracker holds: a fetch that fails leaves the cache nil, so that the next
\* IsWatched fetches again.
C39_FailedFetchLeavesCacheNil ==
    [][\A t \in {"movie", "episode"} :
           (~watchedCache[t].filled /\ watchedCache'[t].filled)
               => watchedCache'[t].ids = watchHistory]_vars

(***************************************************************************)
(* Client.IsWatched called by several goroutines (the workers of           *)
(* SyncEpisodes, SyncMovies beside them), step by step: the read lock and  *)
(* the look at the cache, the write lock of fetchWatchedHistory, the fetch *)
(* under it, the second look.                                              *)
(***************************************************************************)
Idle == [pc |-> "idle", mediaType |-> "movie"]

\* The variables of the services generation that IsWatched leaves alone.
cacheFrame == <<trakt, smedia, snzb, nzbget, notifyChan, stage, cycles, enq, cycleEnd, disturbed>>

\* IsWatched: watchedCacheMu.RLock().
RLock(g) ==
    /\ readers[g] = Idle
    /\ cacheMu.writer = 0
    /\ \E t \in {"movie", "episode"} :
           readers' = [readers EXCEPT ![g] = [pc |-> "rlocked", mediaType |-> t]]
    /\ cacheMu' = [cacheMu EXCEPT !.readers = @ \cup {g}]
    /\ UNCHANGED <<ctlVars, cacheFrame, watchHistory, watchedCache>>
    /\ UNCHANGED <<call, cancelled, responses, sweep, runs, fetches, token, stack, requests>>

\* IsWatched under the read lock: a cache that is not nil answers; a nil one
\* sends the goroutine to fetchWatchedHistory.  RUnlock either way.
CheckCache(g) ==
    /\ readers[g].pc = "rlocked"
    /\ readers' = [readers EXCEPT ![g] =
           IF watchedCache[readers[g].mediaType].filled THEN Idle
           ELSE [@ EXCEPT !.pc = "miss"]]
    /\ cacheMu' = [cacheMu EXCEPT !.readers = @ \ {g}]
    /\ UNCHANGED <<ctlVars, cacheFrame, watchHistory, watchedCache>>
    /\ UNCHANGED <<call, cancelled, responses, sweep, runs, fetches, token, stack, requests>>

\* fetchWatchedHistory: watchedCacheMu.Lock().
Lock(g) ==
    /\ readers[g].pc = "miss"
    /\ cacheMu = [writer |-> 0, readers |-> {}]
    /\ readers' = [readers EXCEPT ![g].pc = "locked"]
    /\ cacheMu' = [cacheMu EXCEPT !.writer = g]
    /\ UNCHANGED <<ctlVars, cacheFrame, watchHistory, watchedCache>>
    /\ UNCHANGED <<call, cancelled, responses, sweep, runs, fetches, token, stack, requests>>

\* fetchWatchedHistory under the write lock, up to the deferred Unlock: the
\* request for the history is sent unless the double-check finds the cache
\* populated; a failed request is the error IsWatched returns.
Populate(g) ==
    /\ readers[g].pc = "locked"
    /\ \E ok \in BOOLEAN :
           LET t == readers[g].mediaType
               issued == ~doubleCheck(watchedCache, t)
           IN /\ watchedCache' = fetchWatchedHistory(watchedCache, t, watchHistory, ok)
              /\ fetches' = [fetches EXCEPT ![t] = IF issued THEN @ + 1 ELSE @]
              /\ readers' = [readers EXCEPT ![g] =
                     IF issued /\ ~ok THEN Idle ELSE [@ EXCEPT !.pc = "reread"]]
    /\ cacheMu' = [cacheMu EXCEPT !.writer = 0]
    /\ UNCHANGED <<ctlVars, cacheFrame, watchHistory>>
    /\ UNCHANGED <<call, cancelled, responses, sweep, runs, token, stack, requests>>

\* IsWatched after the fetch: the second look, under the read lock.
Reread(g) ==
    /\ readers[g].pc = "reread"
    /\ cacheMu.writer = 0
    /\ readers' = [readers EXCEPT ![g] = Idle]
    /\ UNCHANGED <<ctlVars, cacheFrame, watchHistory, watchedCache>>
    /\ UNCHANGED <<call, cancelled, responses, sweep, runs, cacheMu, fetches, token, stack, requests>>

\* Client.ClearWatchedCache, under the write lock.
ClearCache ==
    /\ cacheMu = [writer |-> 0, readers |-> {}]
    /\ watchedCache # ClearWatchedCache
    /\ watchedCache' = ClearWatchedCache
    /\ fetches' = [t \in {"movie", "episode"} |-> 0]
    /\ UNCHANGED <<ctlVars, cacheFrame, watchHistory>>
    /\ UNCHANGED <<call, cancelled, responses, sweep, runs, readers, cacheMu, token, stack, requests>>

\* The user watches something the tracker lists.
WatchListed ==
    /\ watchHistory = {}
    /\ \E t \in {trakt.movies[i].traktID : i \in 1..Len(trakt.movies)}
               \cup {trakt.episodes[i].traktID : i \in 1..Len(trakt.episodes)} :
           watchHistory' = {t}
    /\ UNCHANGED <<ctlVars, cacheFrame, watchedCache, auxVars>>

NextCache ==
    \/ \E g \in Readers : RLock(g)
    \/ \E g \in Readers : CheckCache(g)
    \/ \E g \in Readers : Lock(g)
    \/ \E g \in Readers : Populate(g)
    \/ \E g \in Readers : Reread(g)
    \/ ClearCache
    \/ WatchListed

SpecCache == InitServices /\ [][NextCache]_vars

\* C38: between two clearings of the watched caches, the watched history of
\* a media type is asked for at most once, however many goroutines found
\* the cache nil.
C38_OneFetchPerInvalidation ==
    \A t \in {"movie", "episode"} : fetches[t] <= 1

\* Two goroutines that both found the cache of a media type nil have both
\* been through fetchWatchedHistory, and one request was sent.
C38_TwoMissesOneFetch ==
    \E g, h \in Readers :
        /\ g # h
        /\ readers[g].pc = "reread"
        /\ readers[h].pc = "reread"
        /\ readers[g].mediaType = readers[h].mediaType
        /\ fetches[readers[g].mediaType] = 1

\* C40: the watched event of an episode of another season of the show (the
\* tracker's other) leaves every stored season pack as it is: the pack is of
\* the season the catalog holds.
C40_OtherSeasonLeavesPack ==
    \A e \in tracker.other :
        LET after == cleanupEpisode(DB, RowsOf(medias, DOMAIN medias), medias, e)
        IN \A id \in DOMAIN nzbs :
               nzbs[id].pack => (id \in DOMAIN after.n /\ after.n[id] = nzbs[id])

\* C33: a webhook whose name or hash resolves to an NZB row without a TorBox
\* job changes no NZB row but that one and no media but that row's.  The
\* statuses are those that submit nothing (a failed download's retry submits
\* the next candidate, which is another row).
C33_NoHandleTouchesNoOtherRow ==
    \A job \in jobs, by \in {"name", "hash"}, status \in {"completed", "unknown"} :
        LET sentID == GetNZBByTorBoxJobID(DB, job)
            resolved == IF by = "name" THEN GetNZBByTitle(DB, nzbs[sentID].title)
                        ELSE GetNZBByHash(DB, nzbs[sentID].hash)
            after == Notified(DB, by, nzbs[sentID].title, nzbs[sentID].hash,
                              status, "queued").db
        IN (sentID # 0 /\ resolved # 0 /\ nzbs[resolved].jobID = 0)
           => /\ \A k \in DOMAIN nzbs \ {resolved} :
                     k \in DOMAIN after.n /\ after.n[k] = nzbs[k]
              /\ \A m \in DOMAIN medias \ {nzbs[resolved].mediaID} :
                     m \in DOMAIN after.m /\ after.m[m] = medias[m]

\* C35: the retry after a failure never enqueues a release that was enqueued
\* for the media before (one that failed), so that the enqueues for a media
\* are at most the releases stored for it.
C35_RetryEnqueuesFreshRelease ==
    \A d1, d2 \in DOMAIN nzbget :
        (/\ d1 < d2
         /\ nzbget[d1].traktID = nzbget[d2].traktID
         /\ nzbget[d1].title = nzbget[d2].title)
            => nzbget[d2].by # "retry"

\* C31: while the enqueue stage of a cycle runs, the stage and the retry of
\* a failure webhook do not both give NZBGet a download for the same media:
\* no two downloads queued since the stage began, one by each, wait in
\* NZBGet's queue for one media.
C31_RetryAndStageNotBoth ==
    enq.running =>
        \A d1, d2 \in DOMAIN nzbget :
            (/\ d1 >= enq.first /\ d2 >= enq.first
             /\ nzbget[d1].traktID = nzbget[d2].traktID
             /\ nzbget[d1].state = "queue" /\ nzbget[d2].state = "queue")
                => ~(nzbget[d1].by = "retry" /\ nzbget[d2].by = "enqueue")

====
